---- MODULE Spec2Model ----
(***************************************************************************)
(* Model of the golpm measurement core (package meter): the time-windowed  *)
(* sample buffer, the lock-step derivative buffer and the pulse list that  *)
(* Meter.processSample and Meter.updatePulses maintain.                    *)
(*                                                                         *)
(* Units.  Timestamps and durations are integers (ticks); a reading is an  *)
(* integer number of reading units.  A derivative is the exact quotient    *)
(* (curr.Reading - prev.Reading) / dt, kept as the pair [num, den] with    *)
(* den > 0, and compared by cross-multiplication; the threshold is an      *)
(* integer number of reading units per tick.  Go computes the quotient in  *)
(* float64, so a derivative that is exactly equal to the threshold in real *)
(* arithmetic may land on either side of it after rounding; the model      *)
(* compares the exact values.                                              *)
(* Pulse indices are the 0-based Go indices; sequences are 1-based, so     *)
(* samples[i] of the code is samples[i + 1] here.                          *)
(***************************************************************************)
EXTENDS Integers, Sequences, FiniteSets, TLC

VARIABLES samples, derivatives, pulses,
          windowDuration, threshold, minPulseDuration,
          nIngested,
          lastCutoffIndex, \* cutoffIndex of the latest processSample call
          shutdown,        \* Meter.shutdown
          callbacks,       \* Meter.callbacks: how each registered callback behaves
          mu, cbMu,        \* how the ProcessSamples goroutine holds each lock
          input, inputClosed, nSent, chains,   \* the input channel and its producer
          pc,              \* where the ProcessSamples goroutine is
          cur,             \* the sample processSample was called with
          shouldNotify,    \* local of processSample
          callbacksCopy, cbIdx,                \* locals of notifyCallbacks
          atCall, notified,                    \* history: what a call found, invocations in it
          copies,          \* notifyCallbacks' samplesCopy, derivativesCopy, pulsesCopy
          got,             \* history: what the callback entered last was handed, and for which sample
          rpc, snapshot,   \* a CopyMeasurementData call and what it has read
          readAt, earlier, \* history: the call count at each read; the reads before
          \* package lpm, Mock
          connected,       \* Mock.connected
          cancelled,       \* Mock.ctx is done
          devSamples, devClosed,   \* Mock.samples: its buffer, and whether it is closed
          gen,             \* where each generateSamples goroutine is
          nGenerated,      \* ticks of the generators' tickers so far
          lastErr,         \* what the latest Connect or Close returned
          panicked,        \* the run-time panic that ended the program, if any
          cpc,             \* a consumer ranging over Mock.Samples()
          \* package sample, the base converter
          rawIn, rawClosed, nRaw,  \* the converter's input channel and its producer
          cvpc,            \* where the converter goroutine is
          converted,       \* the Sample it is about to send
          convOut, convOutClosed,  \* the converter's output channel
          received, delivered,     \* history: raw samples taken in, Samples handed to the consumer
          timedOut,        \* history: a send has waited a whole second
          \* the firmware
          heaterStates,    \* [3]bool, indexed 1..3 here (previousStates is written, never read)
          ignoreCountdown, absorberCount, voltageCount,
          discarded,       \* history: readings each channel ignored since the last change
          serialBuffer, serialPos,       \* the line being assembled
          line, lastByte,  \* history: bytes since the last line end, the byte just read
          \* the calibration sequence
          calpc, calK,     \* the stage the run is at, the position in the heater order
          points,          \* calibration points collected so far
          calErr,          \* the error the run returns
          cmds,            \* history: heater commands issued, oldest first
          calHist,         \* history: the command that failed, the wait that was cancelled
          \* the application
          appDevice,       \* state.device: "nil" or "connected"
          appChain,        \* state.chain: 0 (nil) or the number of the chain
          port,            \* state.cfg.Serial.Port
          uipc,            \* where the UI goroutine is
          stream,          \* per chain: "open", "deviceClosed", "closed" (samplesStream)
          meterGo,         \* per chain: its ProcessSamples goroutine, "range" or "returned"
          ingestedBy,      \* per chain: samples its goroutine has ingested
          resets,          \* history: per ResetShutdown call, what it found
          \* package sample, downsampling
          dsInput, dsMaxPoints,    \* the arguments of a call
          dsKind, dsResult, \* which function was called, what it returned
          \* the measurement chain of handleConnect
          chpc,            \* "idle", "running": handleConnect has built the chain
          useMock,         \* state.useMock
          averaging,       \* cfg.Measurement.AverageSamples > 0
          heaterpc,        \* heater-state goroutine: "range", "done"
          heaterSeen,      \* history: the samples it received
          teepc, teeCur,   \* teeChannel's goroutine: "range", "send", "done"
          teeTaken,        \* history: the samples it received
          avgpc,           \* averaging goroutine: "select", "done"
          avgBuffer,       \* its buffer
          avgOut, avgOutClosed,    \* its output channel
          nTicks,          \* ticks of its 100 ms ticker
          mtrpc,           \* the ProcessSamples goroutine: "range", "done"
          fed,             \* history: the samples ProcessSamples received
          closepc          \* closeMeasurementChain: "none", "waitHeater",
                           \* "waitMeter", "returned"

dataVars == <<samples, derivatives, pulses, nIngested, lastCutoffIndex>>

cfgVars == <<windowDuration, threshold, minPulseDuration>>

\* the ProcessSamples goroutine, its channel and the subscription state
runVars == <<shutdown, callbacks, mu, cbMu, input, inputClosed, nSent, chains, pc, cur,
             shouldNotify, callbacksCopy, cbIdx, atCall, notified, copies, got>>

readerVars == <<rpc, snapshot, readAt, earlier>>

mockVars == <<connected, cancelled, devSamples, devClosed, gen, nGenerated, lastErr, panicked,
              cpc>>

convVars == <<rawIn, rawClosed, nRaw, cvpc, converted, convOut, convOutClosed, received,
              delivered, timedOut>>

fwVars == <<heaterStates, ignoreCountdown, absorberCount, voltageCount, discarded,
            serialBuffer, serialPos, line, lastByte>>

calVars == <<calpc, calK, points, calErr, cmds, calHist>>

dsVars == <<dsInput, dsMaxPoints, dsKind, dsResult>>

chainVars == <<chpc, useMock, averaging, heaterpc, heaterSeen, teepc, teeCur, teeTaken,
               avgpc, avgBuffer, avgOut, avgOutClosed, nTicks, mtrpc, fed, closepc>>

appVars == <<appDevice, appChain, port, uipc, stream, meterGo, ingestedBy, resets>>

\* everything outside package meter
otherVars == <<mockVars, convVars, fwVars, calVars, appVars, dsVars, chainVars>>

meterVars == <<dataVars, cfgVars, runVars, readerVars>>

\* what the steps of one component leave alone
notMock == <<meterVars, convVars, fwVars, calVars, appVars, dsVars,
            chainVars>>
notConv == <<meterVars, mockVars, fwVars, calVars, appVars, dsVars,
            chainVars>>
notFw == <<meterVars, mockVars, convVars, calVars, appVars, dsVars,
            chainVars>>
notCal == <<meterVars, mockVars, convVars, fwVars, appVars, dsVars,
            chainVars>>
\* the application drives the meter through ResetShutdown, OnUpdate and
\* ProcessSamples: the shutdown flag and the callback list are its to change
notApp == <<dataVars, cfgVars, mu, cbMu, input, inputClosed, nSent, chains, pc, cur,
            shouldNotify, callbacksCopy, cbIdx, atCall, notified, copies, got, readerVars,
            mockVars, convVars, fwVars, calVars, dsVars, chainVars>>
notDs == <<meterVars, mockVars, convVars, fwVars, calVars, appVars, chainVars>>
\* the chain's goroutines work on the device, the converters and the meter's
\* shutdown flag and callback list
notChain == <<dataVars, cfgVars, mu, cbMu, input, inputClosed, nSent, chains, pc, cur,
              shouldNotify, callbacksCopy, cbIdx, atCall, notified, copies, got, readerVars,
              fwVars, calVars, appVars, dsVars>>

vars == <<dataVars, cfgVars, runVars, readerVars, otherVars>>

(* ------------------------------ bounds --------------------------------- *)

\* Spec: timestamps 0..MaxTime in any order, at most MaxSamples calls.
MaxTime == 3
MaxSamples == 3
\* SpecMono: strictly increasing timestamps 0..MaxMonoTime.
MaxMonoTime == 6
\* SpecRun: samples sent over the input channels, callbacks registered,
\* ProcessSamples calls made one after another, capacity of an input channel.
MaxSent == 3
MaxCallbacks == 2
MaxChains == 2
ChanCap == 1
\* SpecMock: Connect calls on one Mock, ticks of its generators, capacity of
\* its samples channel.
MaxConnects == 2
MaxGenerated == 3
MockBuf == 1
\* SpecConverter: raw samples sent to the converter, capacity of its channels.
MaxRaw == 3
ConvBuf == 1
\* SpecFirmware: bytes followed within one line.
MaxLine == 4
\* SpecCalibration: the largest slope the engine reports during a run.
MaxSlope == 2
\* SpecApp: measurement chains started, samples one chain ingests.
MaxAppChains == 3
MaxChainSamples == 2
\* SpecDownsample: length of the input slice, maxPoints.
\* SpecChain: ticks of the averaging ticker, averaging window, capacity of
\* the averaging converter's output channel.
MaxTicks == 2
AvgWindow == 2
AvgBuf == 1
MaxDsLen == 4
MaxPoints == 3

\* Configurations the meter is constructed with.  New does not validate, so a
\* non-positive window is a meter that can exist.
Windows == {0, 2, 3}
Thresholds == {0, 1}
MinDurations == {0, 2}

\* The reading of a sample, relative to the reading before it: falling, flat,
\* and rising by one or two units.
ReadingSteps == {-1, 0, 1, 2}

\* The run of TestProcessSample_PulseDetection; one tick is 100 ms, one
\* reading unit 0.01 V, so 0.5 V/s is 5 units per tick.
ScenarioSamples == 12
ScenarioThreshold == 5
ScenarioMinDuration == 1
ScenarioWindow == 100
ScenarioFirstReading == 100
\* 0.1 V/s, 0.5 V/s and 1.0 V/s, in reading units per tick
ScenarioRates == {1, 5, 10}

(* ------------------------------ helpers -------------------------------- *)

Max(a, b) == IF a >= b THEN a ELSE b

Last(seq) == seq[Len(seq)]

\* seq[k:] of Go
DropFront(seq, k) == SubSeq(seq, k + 1, Len(seq))

\* time.Time.After
After(t, u) == t > u

(* --------------------------- processSample ----------------------------- *)

\* cutoffTime := s.Timestamp.Add(-m.windowDuration)
CutoffTime(s) == s.Timestamp - windowDuration

\* The loop over m.samples: the 0-based index of the first sample after the
\* cutoff; 0 when there is none.
CutoffIndex(all, cutoffTime) ==
    LET hits == {i \in 1..Len(all) : After(all[i].Timestamp, cutoffTime)}
    IN  IF hits = {} THEN 0
        ELSE (CHOOSE i \in hits : \A j \in hits : i <= j) - 1

\* Mutant: the oldest sample is kept and the ones behind it are removed.
EvictSamplesBehindOldest(all, cutoffIndex) ==
    <<all[1]>> \o SubSeq(all, cutoffIndex + 2, Len(all))

\* m.samples = m.samples[cutoffIndex:]
EvictSamples(all, cutoffIndex) == DropFront(all, cutoffIndex)

\* Mutant: the derivatives are cut at the wrong end of the buffer.
EvictDerivativesFromBack(derivs, cutoffIndex) ==
    IF cutoffIndex <= Len(derivs) THEN SubSeq(derivs, 1, Len(derivs) - cutoffIndex) ELSE <<>>

\* m.derivatives[cutoffIndex:], or cleared when fewer derivatives exist
EvictDerivatives(derivs, cutoffIndex) ==
    IF cutoffIndex <= Len(derivs) THEN DropFront(derivs, cutoffIndex) ELSE <<>>

\* Mutant: the shift leaves EndIndex where it was.
ShiftPulseStartOnly(p, cutoffIndex) ==
    [p EXCEPT !.StartIndex = @ - cutoffIndex]

ShiftPulse(p, cutoffIndex) ==
    [p EXCEPT !.StartIndex = @ - cutoffIndex, !.EndIndex = @ - cutoffIndex]

ValidAfterEviction(p) == p.StartIndex >= 0 /\ p.EndIndex >= 0

\* Mutant: the pulses keep the indices they had before the eviction.
EvictPulsesUnshifted(ps, cutoffIndex) == SelectSeq(ps, ValidAfterEviction)

\* Adjust pulse indices, then remove pulses with invalid indices
EvictPulses(ps, cutoffIndex) ==
    SelectSeq([i \in 1..Len(ps) |-> ShiftPulse(ps[i], cutoffIndex)], ValidAfterEviction)

\* (curr.Reading - prev.Reading) / dt
Derivative(prev, curr) ==
    [num |-> curr.Reading - prev.Reading, den |-> curr.Timestamp - prev.Timestamp]

\* The derivative update for the newest pair, with its defensive trim.
AppendDerivative(smp, derivs) ==
    IF Len(smp) >= 2
    THEN LET prev == smp[Len(smp) - 1]
             curr == smp[Len(smp)]
             dt   == curr.Timestamp - prev.Timestamp
         IN  IF dt > 0
             THEN LET added == Append(derivs, Derivative(prev, curr))
                  IN  IF Len(added) > Len(smp) - 1 THEN DropFront(added, 1) ELSE added
             ELSE derivs
    ELSE derivs

(* ---------------------------- updatePulses ----------------------------- *)

\* Mutant: a derivative equal to the threshold counts as heating.
IsHeatingAtThreshold(d) == d.num >= threshold * d.den

\* lastDeriv > m.threshold
IsHeating(d) == d.num > threshold * d.den

\* The backwards search for a pulse with EndIndex == lastSampleIdx-1: its
\* 1-based position in ps, 0 when there is none (activePulseIdx = -1).
ActivePulseIdx(ps, lastSampleIdx) ==
    LET hits == {i \in 1..Len(ps) : ps[i].EndIndex = lastSampleIdx - 1}
    IN  IF hits = {} THEN 0 ELSE CHOOSE i \in hits : \A j \in hits : i >= j

ShouldStart(derivs, ps, lastSampleIdx) ==
    IF Len(derivs) > 1 /\ IsHeating(derivs[Len(derivs) - 1])
    THEN Len(ps) > 0 /\ lastSampleIdx - 1 > Last(ps).EndIndex + 1
    ELSE TRUE

\* Mutant: an extension moves the end index but not the end time.
ExtendPulseStaleEndTime(p, smp, lastSampleIdx, lastDeriv) ==
    [p EXCEPT !.EndIndex = lastSampleIdx, !.RawValue = lastDeriv]

ExtendPulse(p, smp, lastSampleIdx, lastDeriv) ==
    [p EXCEPT !.EndIndex = lastSampleIdx,
              !.EndTime = smp[lastSampleIdx + 1].Timestamp,
              !.RawValue = lastDeriv]

\* Mutant: the new pulse starts at the newest sample.
NewPulseAtNewest(smp, lastSampleIdx, lastDeriv) ==
    [StartIndex |-> lastSampleIdx,
     EndIndex   |-> lastSampleIdx,
     StartTime  |-> smp[lastSampleIdx + 1].Timestamp,
     EndTime    |-> smp[lastSampleIdx + 1].Timestamp,
     RawValue   |-> lastDeriv]

NewPulse(smp, lastSampleIdx, lastDeriv) ==
    LET startIdx == Max(lastSampleIdx - 1, 0)
    IN  [StartIndex |-> startIdx,
         EndIndex   |-> lastSampleIdx,
         StartTime  |-> smp[startIdx + 1].Timestamp,
         EndTime    |-> smp[lastSampleIdx + 1].Timestamp,
         RawValue   |-> lastDeriv]

\* lastSampleIdx <= lastPulse.EndIndex+2
CloseEnough(p, lastSampleIdx) == lastSampleIdx <= p.EndIndex + 2

\* Mutant: every heating sample opens a pulse, active pulse or not.
HeatingUpdateAlwaysOpening(smp, derivs, ps) ==
    Append(ps, NewPulse(smp, Len(smp) - 1, Last(derivs)))

\* The isHeating branch of updatePulses.
HeatingUpdate(smp, derivs, ps) ==
    LET lastSampleIdx == Len(smp) - 1
        lastDeriv     == Last(derivs)
        active        == ActivePulseIdx(ps, lastSampleIdx)
    IN  IF active > 0
        THEN [ps EXCEPT ![active] = ExtendPulse(@, smp, lastSampleIdx, lastDeriv)]
        ELSE IF ShouldStart(derivs, ps, lastSampleIdx)
             THEN Append(ps, NewPulse(smp, lastSampleIdx, lastDeriv))
             ELSE IF Len(ps) > 0 /\ CloseEnough(Last(ps), lastSampleIdx)
                  THEN [ps EXCEPT ![Len(ps)] = ExtendPulse(@, smp, lastSampleIdx, lastDeriv)]
                  ELSE ps

\* Mutant: the filter forgets the minimum duration.
KeepPulseAnyDuration(p, smp) ==
    /\ p.StartIndex >= 0
    /\ p.StartIndex < Len(smp)

\* The final filter: start index inside the buffer and duration >= minimum
KeepPulse(p, smp) ==
    /\ p.StartIndex >= 0
    /\ p.StartIndex < Len(smp)
    /\ p.EndTime - p.StartTime >= minPulseDuration

\* Mutant: a pulse is dropped as soon as a sample does not extend it.
FilterPulsesOnlyOpen(ps, smp) ==
    LET Keep(p) == KeepPulse(p, smp) /\ p.EndIndex = Len(smp) - 1 IN SelectSeq(ps, Keep)

FilterPulses(ps, smp) ==
    LET Keep(p) == KeepPulse(p, smp) IN SelectSeq(ps, Keep)

UpdatePulses(smp, derivs, ps) ==
    IF Len(derivs) = 0 THEN ps
    ELSE FilterPulses(IF IsHeating(Last(derivs)) THEN HeatingUpdate(smp, derivs, ps) ELSE ps,
                      smp)

(* ------------------------------ actions -------------------------------- *)

ProcessSample(s) ==
    LET all         == Append(samples, s)
        cutoffIndex == CutoffIndex(all, CutoffTime(s))
        smp         == IF cutoffIndex > 0 THEN EvictSamples(all, cutoffIndex) ELSE all
        evDerivs    == IF cutoffIndex > 0 THEN EvictDerivatives(derivatives, cutoffIndex)
                       ELSE derivatives
        evPulses    == IF cutoffIndex > 0 THEN EvictPulses(pulses, cutoffIndex) ELSE pulses
        derivs      == AppendDerivative(smp, evDerivs)
    IN  /\ samples' = smp
        /\ derivatives' = derivs
        /\ pulses' = UpdatePulses(smp, derivs, evPulses)
        /\ nIngested' = nIngested + 1
        /\ lastCutoffIndex' = cutoffIndex
        /\ UNCHANGED cfgVars

\* No sample in hand.
NoSample == [Timestamp |-> 0, Reading |-> 0]

\* lpm.NewMock: not connected, a context that is not cancelled, an open and
\* empty samples channel, no generator; a consumer about to range over it.
InitMock ==
    /\ connected = FALSE
    /\ cancelled = FALSE
    /\ devSamples = <<>>
    /\ devClosed = FALSE
    /\ gen = <<>>
    /\ nGenerated = 0
    /\ lastErr = "none"
    /\ panicked = "none"
    /\ cpc = "range"

\* sample.NewConverter(cfg, bufSize)(in): an open input, an open and empty
\* output, the goroutine at its range loop.
InitConverter ==
    /\ rawIn = <<>>
    /\ rawClosed = FALSE
    /\ nRaw = 0
    /\ cvpc = "range"
    /\ converted = NoSample
    /\ convOut = <<>>
    /\ convOutClosed = FALSE
    /\ received = <<>>
    /\ delivered = <<>>
    /\ timedOut = FALSE

\* The firmware's package variables at the start of main: zero values.
InitFirmware ==
    /\ heaterStates = <<FALSE, FALSE, FALSE>>
    /\ ignoreCountdown = 0
    /\ discarded = [changed |-> FALSE, absorber |-> 0, voltage |-> 0]
    /\ absorberCount = 0
    /\ voltageCount = 0
    /\ serialBuffer = <<"nul", "nul", "nul">>
    /\ serialPos = 0
    /\ line = <<>>
    /\ lastByte = "nul"

\* No error, no failed command, no cancelled wait.
NoCalError == [kind |-> "none", stage |-> "none", heater |-> 0]
NoCalHist == [failedAt |-> 0, cancelled |-> FALSE]

\* runCalibration has been called and has issued nothing yet.
InitCalibration ==
    /\ calpc = "baselineOff"
    /\ calK = 0
    /\ points = <<>>
    /\ calErr = NoCalError
    /\ cmds = <<>>
    /\ calHist = NoCalHist

\* The application after start-up: no device, no chain, the UI idle.
InitApp ==
    /\ appDevice = "nil"
    /\ appChain = 0
    /\ port = "COM1"
    /\ uipc = "idle"
    /\ stream = <<>>
    /\ meterGo = <<>>
    /\ ingestedBy = <<>>
    /\ resets = <<>>

\* No downsampling call made.
InitDownsample ==
    /\ dsInput = <<>>
    /\ dsMaxPoints = 1
    /\ dsKind = "none"
    /\ dsResult = <<>>

\* No measurement chain built.
InitChain ==
    /\ chpc = "idle"
    /\ useMock = TRUE
    /\ averaging = FALSE
    /\ heaterpc = "range"
    /\ heaterSeen = <<>>
    /\ teepc = "range"
    /\ teeCur = 0
    /\ teeTaken = <<>>
    /\ avgpc = "select"
    /\ avgBuffer = <<>>
    /\ avgOut = <<>>
    /\ avgOutClosed = FALSE
    /\ nTicks = 0
    /\ mtrpc = "range"
    /\ fed = <<>>
    /\ closepc = "none"

InitComponents ==
    InitMock /\ InitConverter /\ InitFirmware /\ InitCalibration /\ InitApp /\ InitChain

InitOthers == InitComponents /\ InitDownsample

\* Nothing read yet.
NoSnapshot == [samples |-> <<>>, derivatives |-> <<>>, pulses |-> <<>>]

\* Three empty slices of their own.
NoCopies == [alias |-> FALSE, samples |-> <<>>, derivatives |-> <<>>, pulses |-> <<>>]
NeverRead == [samples |-> -1, derivatives |-> -1, pulses |-> -1]

\* meter.New: empty buffers, no subscriber, not shut down; no ProcessSamples
\* goroutine and no reader yet.
InitMeter ==
    /\ samples = <<>>
    /\ derivatives = <<>>
    /\ pulses = <<>>
    /\ nIngested = 0
    /\ lastCutoffIndex = 0
    /\ shutdown = FALSE
    /\ callbacks = <<>>
    /\ mu = "free"
    /\ cbMu = "free"
    /\ input = <<>>
    /\ inputClosed = TRUE
    /\ nSent = 0
    /\ chains = 0
    /\ pc = "idle"
    /\ cur = NoSample
    /\ shouldNotify = FALSE
    /\ callbacksCopy = <<>>
    /\ cbIdx = 0
    /\ atCall = [down |-> FALSE, registered |-> 0, after |-> NoSnapshot]
    /\ copies = NoCopies
    /\ got = [for |-> NoSample, args |-> NoCopies, after |-> NoSnapshot]
    /\ notified = <<>>
    /\ rpc = "Samples"
    /\ snapshot = NoSnapshot
    /\ readAt = NeverRead
    /\ earlier = [snapshot |-> NoSnapshot, readAt |-> NeverRead]

Init ==
    /\ InitMeter
    /\ InitOthers
    /\ windowDuration \in Windows
    /\ threshold \in Thresholds
    /\ minPulseDuration \in MinDurations

\* The readings a next sample may carry.
NextReadings ==
    IF samples = <<>> THEN {0} ELSE {Last(samples).Reading + d : d \in ReadingSteps}

\* Any timestamps: duplicates and out-of-order samples included.
Ingest ==
    /\ nIngested < MaxSamples
    /\ \E ts \in 0..MaxTime, r \in NextReadings :
           ProcessSample([Timestamp |-> ts, Reading |-> r])
    /\ UNCHANGED <<runVars, readerVars, otherVars>>

Next == Ingest

Spec == Init /\ [][Next]_vars

\* Strictly increasing timestamps, as the sample source is meant to deliver.
IngestMono ==
    \E ts \in 0..MaxMonoTime, r \in NextReadings :
        /\ IF samples = <<>> THEN TRUE ELSE ts > Last(samples).Timestamp
        /\ ProcessSample([Timestamp |-> ts, Reading |-> r])
        /\ UNCHANGED <<runVars, readerVars, otherVars>>

NextMono == IngestMono

SpecMono == Init /\ [][NextMono]_vars

\* The scenario meter: samples one tick apart, each rising by one of the rates.
InitScenario ==
    /\ InitMeter
    /\ InitOthers
    /\ windowDuration = ScenarioWindow
    /\ threshold = ScenarioThreshold
    /\ minPulseDuration = ScenarioMinDuration

IngestScenario ==
    /\ nIngested < ScenarioSamples
    /\ \E rate \in ScenarioRates :
           ProcessSample([Timestamp |-> nIngested,
                          Reading   |-> IF samples = <<>> THEN ScenarioFirstReading
                                        ELSE Last(samples).Reading + rate])
    /\ UNCHANGED <<runVars, readerVars, otherVars>>

NextScenario == IngestScenario

SpecScenario == InitScenario /\ [][NextScenario]_vars

(* ------------- ProcessSamples, callbacks and the two locks ------------- *)

\* What a registered callback does when it is called.
CallbackKinds == {"returns", "hangs"}

lockVars == <<mu, cbMu>>
chanVars == <<input, inputClosed, nSent, chains>>
localVars == <<cur, shouldNotify, callbacksCopy, cbIdx, copies>>
histVars == <<atCall, notified, got>>

\* sync.RWMutex, as far as the ProcessSamples goroutine holds it: Lock needs
\* the mutex free, RLock needs it not write-locked.
CanLock(l) == l = "free"
CanRLock(l) == l # "Lock"

\* Mutant: the loop over the callbacks takes every other one.
NextCallbackSkipping(i) == i + 2

\* for _, cb := range callbacks
NextCallback(i) == i + 1

\* Mutant: the shutdown flag is not consulted.
ShouldNotifyAlways(sd) == TRUE

\* shouldNotify := !m.shutdown
ShouldNotify(sd) == ~sd

\* Mutant: notifyCallbacks keeps the read lock until it returns.
MuHeldAfterCopy == "RLock"

\* m.mu.RUnlock() once the three copies are made
MuAfterCopy == "free"

\* The configuration of the shutdown tests' meter, in scenario units.
InitRun ==
    /\ InitMeter
    /\ InitOthers
    /\ windowDuration = ScenarioWindow
    /\ threshold = ScenarioThreshold
    /\ minPulseDuration = ScenarioMinDuration

\* go m.ProcessSamples(input) on a fresh channel, once the previous call has
\* returned.
StartProcessSamples ==
    /\ pc = "idle"
    /\ chains < MaxChains
    /\ pc' = "range"
    /\ chains' = chains + 1
    /\ input' = <<>>
    /\ inputClosed' = FALSE
    /\ UNCHANGED <<dataVars, cfgVars, shutdown, callbacks, lockVars, nSent, localVars,
                   histVars, readerVars, otherVars>>

\* input <- sample: the producer's samples are one tick apart.
Send ==
    /\ ~inputClosed
    /\ Len(input) < ChanCap
    /\ nSent < MaxSent
    /\ \E rate \in ScenarioRates :
           input' = Append(input, [Timestamp |-> nSent,
                                   Reading   |-> ScenarioFirstReading + rate * nSent])
    /\ nSent' = nSent + 1
    /\ UNCHANGED <<dataVars, cfgVars, shutdown, callbacks, lockVars, inputClosed, chains, pc,
                   localVars, histVars, readerVars, otherVars>>

\* close(input)
CloseInput ==
    /\ ~inputClosed
    /\ inputClosed' = TRUE
    /\ UNCHANGED <<dataVars, cfgVars, shutdown, callbacks, lockVars, input, nSent, chains, pc,
                   localVars, histVars, readerVars, otherVars>>

\* for s := range input: a sample is received and processSample(s) is called.
Receive ==
    /\ pc = "range"
    /\ input # <<>>
    /\ cur' = Head(input)
    /\ input' = Tail(input)
    /\ notified' = <<>>
    /\ pc' = "lock"
    /\ UNCHANGED <<dataVars, cfgVars, shutdown, callbacks, lockVars, inputClosed, nSent, chains,
                   shouldNotify, callbacksCopy, cbIdx, copies, atCall, got, readerVars,
                   otherVars>>

\* processSample: m.mu.Lock()
PSLock ==
    /\ pc = "lock"
    /\ CanLock(mu)
    /\ mu' = "Lock"
    /\ pc' = "body"
    /\ UNCHANGED <<dataVars, cfgVars, shutdown, callbacks, cbMu, chanVars, localVars, histVars,
                   readerVars, otherVars>>

\* processSample under the lock: the buffers are updated, the shutdown flag
\* is read, and the lock is released.
PSBody ==
    /\ pc = "body"
    /\ ProcessSample(cur)
    /\ shouldNotify' = ShouldNotify(shutdown)
    /\ mu' = "free"
    /\ pc' = IF ShouldNotify(shutdown) THEN "rlock" ELSE "relock"
    /\ atCall' = [down |-> shutdown, registered |-> Len(callbacks),
                  after |-> [samples |-> samples', derivatives |-> derivatives',
                             pulses |-> pulses']]
    /\ UNCHANGED <<shutdown, callbacks, cbMu, chanVars, cur, callbacksCopy, cbIdx, copies,
                   notified, got, readerVars, otherVars>>

\* notifyCallbacks: m.mu.RLock()
NotifyRLock ==
    /\ pc = "rlock"
    /\ CanRLock(mu)
    /\ mu' = "RLock"
    /\ pc' = "copy"
    /\ UNCHANGED <<dataVars, cfgVars, shutdown, callbacks, cbMu, chanVars, localVars, histVars,
                   readerVars, otherVars>>

\* What a callback sees through the slices it was handed: their own
\* elements, or the meter's buffers if the slices share them.
View(c) ==
    IF c.alias
       THEN [samples |-> samples, derivatives |-> derivatives, pulses |-> pulses]
       ELSE [samples |-> c.samples, derivatives |-> c.derivatives, pulses |-> c.pulses]

\* Mutant: the meter's own slices are handed out.
BuffersShared ==
    [alias |-> TRUE, samples |-> samples, derivatives |-> derivatives, pulses |-> pulses]

\* make + copy, three times: new slices holding the buffers' elements
CopyBuffers ==
    [alias |-> FALSE, samples |-> samples, derivatives |-> derivatives, pulses |-> pulses]

\* notifyCallbacks: the three copies are made, m.mu.RUnlock()
NotifyCopy ==
    /\ pc = "copy"
    /\ copies' = CopyBuffers
    /\ mu' = MuAfterCopy
    /\ pc' = "cbrlock"
    /\ UNCHANGED <<dataVars, cfgVars, shutdown, callbacks, cbMu, chanVars, cur, shouldNotify,
                   callbacksCopy, cbIdx, histVars, readerVars, otherVars>>

\* notifyCallbacks: m.cbMu.RLock()
NotifyCbRLock ==
    /\ pc = "cbrlock"
    /\ CanRLock(cbMu)
    /\ cbMu' = "RLock"
    /\ pc' = "cbcopy"
    /\ UNCHANGED <<dataVars, cfgVars, shutdown, callbacks, mu, chanVars, localVars, histVars,
                   readerVars, otherVars>>

\* notifyCallbacks: the callback list is copied, m.cbMu.RUnlock(); the loop
\* over the copy begins.
NotifyCbCopy ==
    /\ pc = "cbcopy"
    /\ callbacksCopy' = callbacks
    /\ notified' = [i \in 1..Len(callbacks) |-> 0]
    /\ cbIdx' = 1
    /\ cbMu' = "free"
    /\ pc' = IF callbacks = <<>> THEN "relock" ELSE "invoke"
    /\ UNCHANGED <<dataVars, cfgVars, shutdown, callbacks, mu, chanVars, cur, shouldNotify,
                   copies, atCall, got, readerVars, otherVars>>

\* cb(samplesCopy, derivativesCopy, pulsesCopy): the callback is entered, in
\* the ProcessSamples goroutine.
Invoke ==
    /\ pc = "invoke"
    /\ notified' = [notified EXCEPT ![cbIdx] = @ + 1]
    /\ got' = [for |-> cur, args |-> copies, after |-> atCall.after]
    /\ pc' = "incb"
    /\ UNCHANGED <<dataVars, cfgVars, shutdown, callbacks, lockVars, chanVars, localVars,
                   atCall, readerVars, otherVars>>

\* The callback returns, if it is one that does; the loop goes on.
CallbackReturn ==
    /\ pc = "incb"
    /\ callbacksCopy[cbIdx] = "returns"
    /\ cbIdx' = NextCallback(cbIdx)
    /\ pc' = IF NextCallback(cbIdx) <= Len(callbacksCopy) THEN "invoke" ELSE "relock"
    /\ UNCHANGED <<dataVars, cfgVars, shutdown, callbacks, lockVars, chanVars, cur,
                   shouldNotify, callbacksCopy, copies, histVars, readerVars, otherVars>>

\* processSample: m.mu.Lock() again, for the deferred Unlock
PSRelock ==
    /\ pc = "relock"
    /\ CanLock(mu)
    /\ mu' = "Lock"
    /\ pc' = "return"
    /\ UNCHANGED <<dataVars, cfgVars, shutdown, callbacks, cbMu, chanVars, localVars, histVars,
                   readerVars, otherVars>>

\* processSample returns: the deferred m.mu.Unlock()
PSReturn ==
    /\ pc = "return"
    /\ mu' = "free"
    /\ pc' = "range"
    /\ UNCHANGED <<dataVars, cfgVars, shutdown, callbacks, cbMu, chanVars, localVars, histVars,
                   readerVars, otherVars>>

\* The range loop ends on a closed, drained channel: m.mu.Lock()
PSClosed ==
    /\ pc = "range"
    /\ input = <<>>
    /\ inputClosed
    /\ CanLock(mu)
    /\ mu' = "Lock"
    /\ pc' = "shutdown"
    /\ UNCHANGED <<dataVars, cfgVars, shutdown, callbacks, cbMu, chanVars, localVars, histVars,
                   readerVars, otherVars>>

\* m.shutdown = true; m.mu.Unlock(); ProcessSamples returns.
PSShutdown ==
    /\ pc = "shutdown"
    /\ shutdown' = TRUE
    /\ mu' = "free"
    /\ pc' = "idle"
    /\ UNCHANGED <<dataVars, cfgVars, callbacks, cbMu, chanVars, localVars, histVars,
                   readerVars, otherVars>>

\* Meter.OnUpdate, from any goroutine or from inside a callback
OnUpdate ==
    /\ Len(callbacks) < MaxCallbacks
    /\ CanLock(cbMu)
    /\ \E kind \in CallbackKinds : callbacks' = Append(callbacks, kind)
    /\ UNCHANGED <<dataVars, cfgVars, shutdown, lockVars, chanVars, pc, localVars, histVars,
                   readerVars, otherVars>>

\* Mutant: the reset also drops the buffered samples.
ResetShutdownClearing ==
    /\ CanLock(mu)
    /\ shutdown' = FALSE
    /\ samples' = <<>>
    /\ UNCHANGED <<derivatives, pulses, nIngested, lastCutoffIndex, cfgVars, callbacks,
                   lockVars, chanVars, pc, localVars, histVars, readerVars, otherVars>>

\* Meter.ResetShutdown, from any goroutine or from inside a callback
ResetShutdown ==
    /\ CanLock(mu)
    /\ shutdown' = FALSE
    /\ UNCHANGED <<dataVars, cfgVars, callbacks, lockVars, chanVars, pc, localVars, histVars,
                   readerVars, otherVars>>

NextRun ==
    \/ StartProcessSamples
    \/ Send
    \/ CloseInput
    \/ Receive
    \/ PSLock
    \/ PSBody
    \/ NotifyRLock
    \/ NotifyCopy
    \/ NotifyCbRLock
    \/ NotifyCbCopy
    \/ Invoke
    \/ CallbackReturn
    \/ PSRelock
    \/ PSReturn
    \/ PSClosed
    \/ PSShutdown
    \/ OnUpdate
    \/ ResetShutdown

SpecRun == InitRun /\ [][NextRun]_vars

(* ------------------- a reader beside the ingestion -------------------- *)

\* Mutant: a read that consumes the oldest sample.
ReadSamplesDraining ==
    /\ rpc = "Samples"
    /\ CanRLock(mu)
    /\ snapshot' = [snapshot EXCEPT !.samples = samples]
    /\ readAt' = [readAt EXCEPT !.samples = nIngested]
    /\ rpc' = "Derivatives"
    /\ samples' = IF samples = <<>> THEN samples ELSE Tail(samples)
    /\ UNCHANGED <<derivatives, pulses, nIngested, lastCutoffIndex, cfgVars, runVars, earlier, otherVars>>

\* samples := meter.Samples()
ReadSamples ==
    /\ rpc = "Samples"
    /\ CanRLock(mu)
    /\ snapshot' = [snapshot EXCEPT !.samples = samples]
    /\ readAt' = [readAt EXCEPT !.samples = nIngested]
    /\ rpc' = "Derivatives"
    /\ UNCHANGED <<dataVars, cfgVars, runVars, earlier, otherVars>>

\* derivatives := meter.Derivatives()
ReadDerivatives ==
    /\ rpc = "Derivatives"
    /\ CanRLock(mu)
    /\ snapshot' = [snapshot EXCEPT !.derivatives = derivatives]
    /\ readAt' = [readAt EXCEPT !.derivatives = nIngested]
    /\ rpc' = "Pulses"
    /\ UNCHANGED <<dataVars, cfgVars, runVars, earlier, otherVars>>

\* pulses := meter.Pulses(); CopyMeasurementData has its triple.
ReadPulses ==
    /\ rpc = "Pulses"
    /\ CanRLock(mu)
    /\ snapshot' = [snapshot EXCEPT !.pulses = pulses]
    /\ readAt' = [readAt EXCEPT !.pulses = nIngested]
    /\ rpc' = "done"
    /\ UNCHANGED <<dataVars, cfgVars, runVars, earlier, otherVars>>

\* The three reads are made once more; the first results are kept aside.
ReadAgain ==
    /\ rpc = "done"
    /\ earlier.readAt = NeverRead
    /\ earlier' = [snapshot |-> snapshot, readAt |-> readAt]
    /\ rpc' = "Samples"
    /\ UNCHANGED <<dataVars, cfgVars, runVars, snapshot, readAt, otherVars>>

\* The ingesting goroutine: one processSample per tick, no subscriber.
IngestSnapshot ==
    /\ nIngested < MaxSamples
    /\ \E r \in NextReadings : ProcessSample([Timestamp |-> nIngested, Reading |-> r])
    /\ UNCHANGED <<runVars, readerVars, otherVars>>

NextSnapshot ==
    \/ IngestSnapshot
    \/ ReadSamples
    \/ ReadDerivatives
    \/ ReadPulses

SpecSnapshot == Init /\ [][NextSnapshot]_vars

NextReads ==
    \/ IngestSnapshot
    \/ ReadSamples
    \/ ReadDerivatives
    \/ ReadPulses
    \/ ReadAgain

SpecReads == Init /\ [][NextReads]_vars

(* ----------------------- package lpm: the Mock ------------------------- *)

\* Mock.Connect
MockConnect ==
    /\ panicked = "none"
    /\ Len(gen) < MaxConnects
    /\ IF connected
       THEN /\ lastErr' = "already connected"
            /\ UNCHANGED <<connected, gen>>
       ELSE /\ connected' = TRUE
            /\ gen' = Append(gen, "select")
            /\ lastErr' = "nil"
    /\ UNCHANGED <<cancelled, devSamples, devClosed, nGenerated, panicked, cpc, notMock>>

\* close(m.samples): closing a closed channel panics.
CloseChannel ==
    IF devClosed
    THEN panicked' = "close of closed channel" /\ UNCHANGED devClosed
    ELSE devClosed' = TRUE /\ UNCHANGED panicked

\* Mock.Close
MockClose ==
    /\ panicked = "none"
    /\ IF ~connected
       THEN /\ lastErr' = "nil"
            /\ UNCHANGED <<connected, cancelled, devClosed, panicked>>
       ELSE /\ cancelled' = TRUE
            /\ connected' = FALSE
            /\ CloseChannel
            /\ lastErr' = "nil"
    /\ UNCHANGED <<devSamples, gen, nGenerated, cpc, notMock>>

\* generateSamples, outer select: the context is done and the goroutine
\* returns, or the ticker fires and a sample is generated.
GenSelect(g) ==
    /\ panicked = "none"
    /\ gen[g] = "select"
    /\ \/ /\ cancelled
          /\ gen' = [gen EXCEPT ![g] = "exited"]
          /\ UNCHANGED nGenerated
       \/ /\ nGenerated < MaxGenerated
          /\ gen' = [gen EXCEPT ![g] = "send"]
          /\ nGenerated' = nGenerated + 1
    /\ UNCHANGED <<connected, cancelled, devSamples, devClosed, lastErr, panicked, cpc,
                   notMock>>

\* generateSamples, inner select: one of the cases that can proceed is taken
\* (a send on a closed channel can proceed, and panics); default when none can.
GenSend(g) ==
    /\ panicked = "none"
    /\ gen[g] = "send"
    /\ \/ /\ devClosed
          /\ panicked' = "send on closed channel"
          /\ UNCHANGED <<devSamples, gen>>
       \/ /\ ~devClosed
          /\ Len(devSamples) < MockBuf
          /\ devSamples' = Append(devSamples, nGenerated)
          /\ gen' = [gen EXCEPT ![g] = "select"]
          /\ UNCHANGED panicked
       \/ /\ cancelled
          /\ gen' = [gen EXCEPT ![g] = "exited"]
          /\ UNCHANGED <<devSamples, panicked>>
       \/ /\ ~devClosed
          /\ Len(devSamples) >= MockBuf
          /\ ~cancelled
          /\ gen' = [gen EXCEPT ![g] = "select"]
          /\ UNCHANGED <<devSamples, panicked>>
    /\ UNCHANGED <<connected, cancelled, devClosed, nGenerated, lastErr, cpc, notMock>>

Generate == \E g \in 1..Len(gen) : GenSelect(g) \/ GenSend(g)

\* for range mock.Samples(): a buffered sample is received, or the loop ends
\* on the closed and drained channel.
Consume ==
    /\ panicked = "none"
    /\ cpc = "range"
    /\ \/ /\ devSamples # <<>>
          /\ devSamples' = Tail(devSamples)
          /\ UNCHANGED cpc
       \/ /\ devSamples = <<>>
          /\ devClosed
          /\ cpc' = "done"
          /\ UNCHANGED devSamples
    /\ UNCHANGED <<connected, cancelled, devClosed, gen, nGenerated, lastErr, panicked,
                   notMock>>

NextMock ==
    \/ MockConnect
    \/ MockClose
    \/ Generate
    \/ Consume

SpecMock == InitRun /\ [][NextMock]_vars

(* ------------------ package sample: the base converter ---------------- *)

\* 12-bit ADC readings a raw sample may carry.
RawReadings == {0, 2048, 4095}

\* cfg.VoltageDivider.VRef, in tenths of a volt
VRef == 33

\* adcToVoltage: (adc / 4095) * vref, in tenths of a volt, as an exact quotient
AdcToVoltage(adc) == [num |-> adc * VRef, den |-> 4095]

\* convertSample: the timestamp is kept, the reading becomes a voltage.
ConvertSample(raw) == [Timestamp |-> raw.Timestamp, Reading |-> AdcToVoltage(raw.Reading)]

\* Mutant: the sample goes out twice.
EmitTwice(out, s) == Append(Append(out, s), s)

\* out <- sample
Emit(out, s) == Append(out, s)

\* The device side sends a raw sample, one tick after the one before.
RawSend ==
    /\ ~rawClosed
    /\ Len(rawIn) < ConvBuf
    /\ nRaw < MaxRaw
    /\ \E adc \in RawReadings : rawIn' = Append(rawIn, [Timestamp |-> nRaw, Reading |-> adc])
    /\ nRaw' = nRaw + 1
    /\ UNCHANGED <<rawClosed, cvpc, converted, convOut, convOutClosed, received, delivered,
                   timedOut, notConv>>

\* close(in)
RawClose ==
    /\ ~rawClosed
    /\ rawClosed' = TRUE
    /\ UNCHANGED <<rawIn, nRaw, cvpc, converted, convOut, convOutClosed, received, delivered,
                   timedOut, notConv>>

\* for raw := range in: a raw sample is received and converted.
ConvReceive ==
    /\ cvpc = "range"
    /\ rawIn # <<>>
    /\ converted' = ConvertSample(Head(rawIn))
    /\ received' = Append(received, Head(rawIn))
    /\ rawIn' = Tail(rawIn)
    /\ cvpc' = "send"
    /\ UNCHANGED <<rawClosed, nRaw, convOut, convOutClosed, delivered, timedOut, notConv>>

\* select, case out <- sample: the output has room.
ConvSend ==
    /\ cvpc = "send"
    /\ Len(convOut) < ConvBuf
    /\ convOut' = Emit(convOut, converted)
    /\ cvpc' = "range"
    /\ UNCHANGED <<rawIn, rawClosed, nRaw, converted, convOutClosed, received, delivered,
                   timedOut, notConv>>

\* select, case <-time.After(time.Second): the output stayed full for a
\* second, and the sample is dropped.
ConvTimeout ==
    /\ cvpc = "send"
    /\ Len(convOut) >= ConvBuf
    /\ timedOut' = TRUE
    /\ cvpc' = "range"
    /\ UNCHANGED <<rawIn, rawClosed, nRaw, converted, convOut, convOutClosed, received,
                   delivered, notConv>>

\* The range loop ends on the closed, drained input: defer close(out)
ConvClose ==
    /\ cvpc = "range"
    /\ rawIn = <<>>
    /\ rawClosed
    /\ convOutClosed' = TRUE
    /\ cvpc' = "done"
    /\ UNCHANGED <<rawIn, rawClosed, nRaw, converted, convOut, received, delivered, timedOut,
                   notConv>>

\* The consumer receives from the output channel.
ConvConsume ==
    /\ convOut # <<>>
    /\ delivered' = Append(delivered, Head(convOut))
    /\ convOut' = Tail(convOut)
    /\ UNCHANGED <<rawIn, rawClosed, nRaw, cvpc, converted, convOutClosed, received, timedOut,
                   notConv>>

NextConverter ==
    \/ RawSend
    \/ RawClose
    \/ ConvReceive
    \/ ConvSend
    \/ ConvTimeout
    \/ ConvClose
    \/ ConvConsume

SpecConverter == InitRun /\ [][NextConverter]_vars

(* ------------------------------ firmware -------------------------------- *)

NUM_SAMPLES == 20
IGNORE_SAMPLES_AFTER_CHANGE == 10

\* Bytes the host may send: the digits, a space, some other character, and
\* the two line ends '\n' and '\r'.
LineEnds == {"LF", "CR"}
Bytes == {"0", "1", "SP", "x"} \cup LineEnds

\* newState := serialBuffer[i] == '1'
ParsedStates == [i \in 1..3 |-> serialBuffer[i] = "1"]

\* updateHeaterStates: the three heaters take the parsed states; a change
\* starts the ignore countdown and resets the averaging.
UpdateHeaterStates ==
    /\ heaterStates' = ParsedStates
    /\ IF ParsedStates # heaterStates
          THEN /\ ignoreCountdown' = IGNORE_SAMPLES_AFTER_CHANGE
               /\ discarded' = [changed |-> TRUE, absorber |-> 0, voltage |-> 0]
               /\ absorberCount' = 0
               /\ voltageCount' = 0
          ELSE UNCHANGED <<ignoreCountdown, absorberCount, voltageCount, discarded>>

\* processSerial, one byte read from the UART.
UartByte(data) ==
    /\ lastByte' = data
    /\ IF data \in LineEnds
          THEN /\ IF serialPos = 3
                     THEN UpdateHeaterStates
                     ELSE UNCHANGED <<heaterStates, ignoreCountdown, discarded,
                                      absorberCount, voltageCount>>
               /\ serialPos' = 0
               /\ line' = <<>>
               /\ UNCHANGED serialBuffer
          ELSE /\ Len(line) < MaxLine
               /\ line' = Append(line, data)
               /\ UNCHANGED <<heaterStates, ignoreCountdown, discarded, absorberCount,
                              voltageCount>>
               /\ IF data = "SP"
                     THEN UNCHANGED <<serialBuffer, serialPos>>
                     ELSE IF data \in {"0", "1"}
                             THEN IF serialPos < 3
                                     THEN /\ serialBuffer' =
                                               [serialBuffer EXCEPT ![serialPos + 1] = data]
                                          /\ serialPos' = serialPos + 1
                                     ELSE UNCHANGED <<serialBuffer, serialPos>>
                             ELSE /\ serialPos' = 0
                                  /\ UNCHANGED serialBuffer
    /\ UNCHANGED notFw

ProcessSerial == \E data \in Bytes : UartByte(data)

\* readAbsorberADC / readVoltageADC: what one reading does to the countdown
\* and to the channel's count.
CountdownAfterRead(countdown) == IF countdown > 0 THEN countdown - 1 ELSE 0
CountAfterRead(countdown, count) == IF countdown > 0 THEN count ELSE count + 1

\* One pass of the main loop in which the sample interval has elapsed:
\* readAbsorberADC, readVoltageADC, then the averaged output once either
\* channel has NUM_SAMPLES readings.
ReadADCs ==
    LET a == CountAfterRead(ignoreCountdown, absorberCount)
        c == CountdownAfterRead(ignoreCountdown)
        v == CountAfterRead(c, voltageCount)
    IN  /\ ignoreCountdown' = CountdownAfterRead(c)
        /\ discarded' = [discarded EXCEPT
                            !.absorber = IF ignoreCountdown > 0 THEN @ + 1 ELSE @,
                            !.voltage = IF c > 0 THEN @ + 1 ELSE @]
        /\ IF a >= NUM_SAMPLES \/ v >= NUM_SAMPLES
              THEN absorberCount' = 0 /\ voltageCount' = 0
              ELSE absorberCount' = a /\ voltageCount' = v
        /\ UNCHANGED <<heaterStates, serialBuffer, serialPos, line, lastByte,
                       notFw>>

NextFirmware == ProcessSerial \/ ReadADCs

SpecFirmware == InitRun /\ [][NextFirmware]_vars

(* ------------------------- calibration sequence ------------------------ *)

\* The configured heater order and the known power of each heater (mW).
HeaterOrder == <<1, 2, 3>>
HeaterPower == <<10, 50, 100>>

\* Slopes the measurement engine may report at the end of a wait.
Slopes == 0..MaxSlope

\* setHeaters(h1, h2, h3): all heaters off, and the one heater on.
AllOff == <<FALSE, FALSE, FALSE>>
OnlyHeater(h) == [i \in 1..3 |-> i = h]

RECURSIVE InsertPoint(_, _)
\* The point put into a table sorted by slope, after the points of equal slope.
InsertPoint(table, p) ==
    IF table = <<>> THEN <<p>>
    ELSE IF p.slope < Head(table).slope THEN <<p>> \o table
    ELSE <<Head(table)>> \o InsertPoint(Tail(table), p)

RECURSIVE SortedTable(_)
\* The collected points as a CalibrationTable, ordered by slope.
SortedTable(ps) ==
    IF ps = <<>> THEN <<>>
    ELSE InsertPoint(SortedTable(SubSeq(ps, 1, Len(ps) - 1)), ps[Len(ps)])

\* Mutant: the run returns without forcing the heaters off.
AbortLeavingHeaters(issued, kind, stage) ==
    /\ cmds' = issued
    /\ calErr' = [kind |-> kind, stage |-> stage, heater |-> calK]
    /\ calpc' = "returned"
    /\ UNCHANGED <<calK, points>>

\* The failure path: all heaters forced off (the command is issued, best
\* effort), the points collected so far returned with the error.
Abort(issued, kind, stage) ==
    /\ cmds' = Append(issued, AllOff)
    /\ calErr' = [kind |-> kind, stage |-> stage, heater |-> calK]
    /\ calpc' = "returned"
    /\ UNCHANGED <<calK, points>>

\* Mutant: the point measured before the failure is lost.
HeaterFailedDroppingPoint(cmd, stage) ==
    /\ calHist' = [calHist EXCEPT !.failedAt = Len(cmds) + 1]
    /\ cmds' = Append(Append(cmds, cmd), AllOff)
    /\ calErr' = [kind |-> "DeviceError", stage |-> stage, heater |-> calK]
    /\ calpc' = "returned"
    /\ points' = SubSeq(points, 1, Len(points) - 1)
    /\ UNCHANGED calK

\* setHeaters fails with a DeviceError: the rest of the sequence is given up.
HeaterFailed(cmd, stage) ==
    /\ calHist' = [calHist EXCEPT !.failedAt = Len(cmds) + 1]
    /\ Abort(Append(cmds, cmd), "DeviceError", stage)

\* The caller cancels during a timed wait.
WaitCancelled(stage) ==
    /\ calHist' = [calHist EXCEPT !.cancelled = TRUE]
    /\ Abort(cmds, "CalibrationCancelled", stage)

\* Step 1: request all heaters off.
CalBaselineOff ==
    /\ calpc = "baselineOff"
    /\ \E ok \in BOOLEAN :
          IF ok
             THEN /\ cmds' = Append(cmds, AllOff)
                  /\ calpc' = "baselineWait"
                  /\ UNCHANGED <<calK, points, calErr, calHist>>
             ELSE HeaterFailed(AllOff, "baselineOff")
    /\ UNCHANGED notCal

\* Step 1: the baseline wait, then the point {measured slope, power 0}.
CalBaselineWait ==
    /\ calpc = "baselineWait"
    /\ \E cancel \in BOOLEAN, slope \in Slopes :
          IF cancel
             THEN WaitCancelled("baselineWait")
             ELSE /\ points' = Append(points, [slope |-> slope, power |-> 0])
                  /\ calK' = 1
                  /\ calpc' = "heaterOn"
                  /\ UNCHANGED <<calErr, cmds, calHist>>
    /\ UNCHANGED notCal

\* Step 2: turn the indicated heater on.
CalHeaterOn ==
    /\ calpc = "heaterOn"
    /\ \E ok \in BOOLEAN :
          IF ok
             THEN /\ cmds' = Append(cmds, OnlyHeater(HeaterOrder[calK]))
                  /\ calpc' = "measure"
                  /\ UNCHANGED <<calK, points, calErr, calHist>>
             ELSE HeaterFailed(OnlyHeater(HeaterOrder[calK]), "heaterOn")
    /\ UNCHANGED notCal

\* Step 2: measure for the heater duration, append {slope, known power}.
CalMeasure ==
    /\ calpc = "measure"
    /\ \E cancel \in BOOLEAN, slope \in Slopes :
          IF cancel
             THEN WaitCancelled("measure")
             ELSE /\ points' = Append(points, [slope |-> slope,
                                               power |-> HeaterPower[HeaterOrder[calK]]])
                  /\ calpc' = "heaterOff"
                  /\ UNCHANGED <<calK, calErr, cmds, calHist>>
    /\ UNCHANGED notCal

\* Step 2: turn the heater off.
CalHeaterOff ==
    /\ calpc = "heaterOff"
    /\ \E ok \in BOOLEAN :
          IF ok
             THEN /\ cmds' = Append(cmds, AllOff)
                  /\ calpc' = "cooloff"
                  /\ UNCHANGED <<calK, points, calErr, calHist>>
             ELSE HeaterFailed(AllOff, "heaterOff")
    /\ UNCHANGED notCal

\* Step 2: wait the cooloff duration; step 3 after the last heater: the
\* sorted table is returned.
CalCooloff ==
    /\ calpc = "cooloff"
    /\ \E cancel \in BOOLEAN :
          IF cancel
             THEN WaitCancelled("cooloff")
             ELSE IF calK < Len(HeaterOrder)
                     THEN /\ calK' = calK + 1
                          /\ calpc' = "heaterOn"
                          /\ UNCHANGED <<points, calErr, cmds, calHist>>
                     ELSE /\ points' = SortedTable(points)
                          /\ calpc' = "returned"
                          /\ UNCHANGED <<calK, calErr, cmds, calHist>>
    /\ UNCHANGED notCal

NextCalibration ==
    \/ CalBaselineOff
    \/ CalBaselineWait
    \/ CalHeaterOn
    \/ CalMeasure
    \/ CalHeaterOff
    \/ CalCooloff

SpecCalibration == InitRun /\ [][NextCalibration]_vars

(* ----------------------------- application ----------------------------- *)

Ports == {"COM1", "COM2"}

\* Mutant: the chain is considered closed without waiting for the meter.
MeterGoroutineNotAwaited(c) == TRUE

\* <-chain.meterGoroutine: meterDone is closed once ProcessSamples returned.
MeterGoroutineDone(c) == meterGo[c] = "returned"

\* closeMeasurementChain, up to its waits: chain.device.Close()
CloseChainDevice(c) == stream' = [stream EXCEPT ![c] = "deviceClosed"]

\* handleConnect, the connect branch after a successful device.Connect():
\* ResetShutdown, OnUpdate, the converter pipeline, go ProcessSamples.
StartChain ==
    /\ appDevice' = "connected"
    /\ resets' = Append(resets, [running |-> {c \in 1..Len(meterGo) : meterGo[c] # "returned"},
                                 shutdown |-> shutdown,
                                 chainsBefore |-> Len(meterGo)])
    /\ shutdown' = FALSE
    /\ callbacks' = Append(callbacks, "returns")
    /\ stream' = Append(stream, "open")
    /\ meterGo' = Append(meterGo, "range")
    /\ ingestedBy' = Append(ingestedBy, 0)
    /\ appChain' = Len(meterGo) + 1

\* handleConnect, the connect branch: device.Connect() succeeds or fails.
ConnectBranch ==
    \E ok \in BOOLEAN :
        IF ok /\ Len(meterGo) < MaxAppChains
           THEN StartChain
           ELSE UNCHANGED <<appDevice, appChain, stream, meterGo, ingestedBy, resets, shutdown,
                            callbacks>>

\* The connect button: handleConnect, up to the waits of closeMeasurementChain.
ClickConnect ==
    /\ uipc = "idle"
    /\ IF appDevice # "nil"
          THEN /\ CloseChainDevice(appChain)
               /\ uipc' = "disconnecting"
               /\ UNCHANGED <<appDevice, appChain, meterGo, ingestedBy, resets, shutdown,
                              callbacks>>
          ELSE /\ ConnectBranch
               /\ UNCHANGED uipc
    /\ UNCHANGED <<port, notApp>>

\* handleConnect, the disconnect branch after closeMeasurementChain returned.
Disconnected ==
    /\ uipc = "disconnecting"
    /\ MeterGoroutineDone(appChain)
    /\ appChain' = 0
    /\ appDevice' = "nil"
    /\ uipc' = "idle"
    /\ UNCHANGED <<port, stream, meterGo, ingestedBy, resets, shutdown, callbacks, notApp>>

\* The serial tab's OnSubmit, up to the waits of closeMeasurementChain.
SubmitPort ==
    /\ uipc = "idle"
    /\ \E selectedPort \in Ports, saved \in BOOLEAN :
          LET portChanged == port # selectedPort
              wasConnected == appDevice # "nil"
          IN  /\ port' = selectedPort
              /\ IF saved /\ portChanged /\ wasConnected
                    THEN /\ CloseChainDevice(appChain)
                         /\ uipc' = "restarting"
                    ELSE UNCHANGED <<stream, uipc>>
    /\ UNCHANGED <<appDevice, appChain, meterGo, ingestedBy, resets, shutdown, callbacks, notApp>>

\* OnSubmit after closeMeasurementChain returned: the chain and the device
\* are dropped and handleConnect reconnects.
Restart ==
    /\ uipc = "restarting"
    /\ MeterGoroutineDone(appChain)
    /\ uipc' = "idle"
    /\ \E ok \in BOOLEAN :
          IF ok /\ Len(meterGo) < MaxAppChains
             THEN StartChain
             ELSE /\ appChain' = 0
                  /\ appDevice' = "nil"
                  /\ UNCHANGED <<stream, meterGo, ingestedBy, resets, shutdown, callbacks>>
    /\ UNCHANGED <<port, notApp>>

\* The converters drain and close samplesStream after the device closed its
\* channel.
StreamCloses(c) ==
    /\ stream[c] = "deviceClosed"
    /\ stream' = [stream EXCEPT ![c] = "closed"]
    /\ UNCHANGED <<appDevice, appChain, port, uipc, meterGo, ingestedBy, resets, shutdown,
                   callbacks, notApp>>

\* ProcessSamples of chain c receives a sample and ingests it.
ChainIngests(c) ==
    /\ meterGo[c] = "range"
    /\ stream[c] # "closed"
    /\ ingestedBy[c] < MaxChainSamples
    /\ ingestedBy' = [ingestedBy EXCEPT ![c] = @ + 1]
    /\ UNCHANGED <<appDevice, appChain, port, uipc, stream, meterGo, resets, shutdown, callbacks,
                   notApp>>

\* ProcessSamples of chain c finds its input closed: shutdown = true, return,
\* and the deferred close(meterDone).
ChainReturns(c) ==
    /\ meterGo[c] = "range"
    /\ stream[c] = "closed"
    /\ shutdown' = TRUE
    /\ meterGo' = [meterGo EXCEPT ![c] = "returned"]
    /\ UNCHANGED <<appDevice, appChain, port, uipc, stream, ingestedBy, resets, callbacks,
                   notApp>>

ChainStep == \E c \in 1..Len(meterGo) : StreamCloses(c) \/ ChainIngests(c) \/ ChainReturns(c)

NextApp ==
    \/ ClickConnect
    \/ Disconnected
    \/ SubmitPort
    \/ Restart
    \/ ChainStep

SpecApp == InitRun /\ [][NextApp]_vars

(* --------------------- the measurement chain --------------------------- *)

\* The raw sample the device's n-th sample stands for: its timestamp is n
\* ticks, its reading mid-scale.
RawOf(n) == [Timestamp |-> n, Reading |-> 2048]

\* what the chain's own steps leave alone in the device and the base converter
mockRest == <<connected, cancelled, devClosed, gen, nGenerated, lastErr, panicked, cpc>>

\* handleConnect, the connect branch, for a device that connects: the shutdown
\* flag is reset, the scope callback registered, and the goroutines of the
\* chain are started.
ChainConnect ==
    /\ chpc = "idle"
    /\ chpc' = "running"
    /\ \E mock \in BOOLEAN, avg \in BOOLEAN : useMock' = mock /\ averaging' = avg
    /\ connected' = TRUE
    /\ gen' = Append(gen, "select")
    /\ lastErr' = "nil"
    /\ shutdown' = FALSE
    /\ callbacks' = Append(callbacks, "returns")
    /\ UNCHANGED <<cancelled, devSamples, devClosed, nGenerated, panicked, cpc, convVars,
                   heaterpc, heaterSeen, teepc, teeCur, teeTaken, avgpc, avgBuffer, avgOut,
                   avgOutClosed, nTicks, mtrpc, fed, closepc, notChain>>

\* Serial.readSamples, deferred recover(): the panic of a send on the closed
\* channel ends the reader goroutine, not the program.
SerialRecover ==
    /\ ~useMock
    /\ panicked = "send on closed channel"
    /\ panicked' = "none"
    /\ gen' = [g \in 1..Len(gen) |-> IF gen[g] = "send" THEN "recovered" ELSE gen[g]]
    /\ UNCHANGED <<connected, cancelled, devSamples, devClosed, nGenerated, lastErr, cpc,
                   convVars, chainVars, shutdown, callbacks, notChain>>

\* The heater-state goroutine, for rawSample := range rawSamples: a sample
\* is received and the heater buttons are updated from it, or the loop ends
\* on the closed and drained channel.
HeaterStep ==
    /\ panicked = "none"
    /\ chpc = "running"
    /\ heaterpc = "range"
    /\ \/ /\ devSamples # <<>>
          /\ heaterSeen' = Append(heaterSeen, Head(devSamples))
          /\ devSamples' = Tail(devSamples)
          /\ UNCHANGED heaterpc
       \/ /\ devSamples = <<>>
          /\ devClosed
          /\ heaterpc' = "done"
          /\ UNCHANGED <<devSamples, heaterSeen>>
    /\ UNCHANGED <<mockRest, convVars, chpc, useMock, averaging, teepc, teeCur, teeTaken,
                   avgpc, avgBuffer, avgOut, avgOutClosed, nTicks, mtrpc, fed, closepc,
                   shutdown, callbacks, notChain>>

\* teeChannel, for sample := range in: a sample is received.
TeeReceive ==
    /\ panicked = "none"
    /\ chpc = "running"
    /\ teepc = "range"
    /\ devSamples # <<>>
    /\ teeCur' = Head(devSamples)
    /\ teeTaken' = Append(teeTaken, Head(devSamples))
    /\ devSamples' = Tail(devSamples)
    /\ teepc' = "send"
    /\ UNCHANGED <<mockRest, convVars, chpc, useMock, averaging, heaterpc, heaterSeen, avgpc,
                   avgBuffer, avgOut, avgOutClosed, nTicks, mtrpc, fed, closepc, shutdown,
                   callbacks, notChain>>

\* teeChannel, out <- sample: blocks until the converter's input has room.
TeeSend ==
    /\ panicked = "none"
    /\ teepc = "send"
    /\ Len(rawIn) < ConvBuf
    /\ rawIn' = Append(rawIn, RawOf(teeCur))
    /\ nRaw' = nRaw + 1
    /\ teepc' = "range"
    /\ UNCHANGED <<rawClosed, cvpc, converted, convOut, convOutClosed, received, delivered,
                   timedOut, mockVars, chpc, useMock, averaging, heaterpc, heaterSeen, teeCur,
                   teeTaken, avgpc, avgBuffer, avgOut, avgOutClosed, nTicks, mtrpc, fed,
                   closepc, shutdown, callbacks, notChain>>

\* teeChannel: the range loop ends on the closed, drained channel: defer
\* close(out)
TeeClose ==
    /\ panicked = "none"
    /\ chpc = "running"
    /\ teepc = "range"
    /\ devSamples = <<>>
    /\ devClosed
    /\ teepc' = "done"
    /\ rawClosed' = TRUE
    /\ UNCHANGED <<rawIn, nRaw, cvpc, converted, convOut, convOutClosed, received, delivered,
                   timedOut, mockVars, chpc, useMock, averaging, heaterpc, heaterSeen, teeCur,
                   teeTaken, avgpc, avgBuffer, avgOut, avgOutClosed, nTicks, mtrpc, fed,
                   closepc, shutdown, callbacks, notChain>>

\* The base converter's goroutine.
ChainConvert ==
    /\ panicked = "none"
    /\ chpc = "running"
    /\ ConvReceive \/ ConvSend \/ ConvTimeout \/ ConvClose

RECURSIVE SumNum(_)
SumNum(seq) == IF seq = <<>> THEN 0 ELSE Head(seq).Reading.num + SumNum(Tail(seq))

\* averageConvertedSamples: the timestamp of the last sample, the mean of the
\* readings (all over the same denominator 4095).
AverageConvertedSamples(buffer) ==
    [Timestamp |-> buffer[Len(buffer)].Timestamp,
     Reading |-> [num |-> SumNum(buffer), den |-> 4095 * Len(buffer)]]

\* select { case out <- avg: default: }: the average is sent when the output
\* has room and dropped otherwise; nothing is sent for an empty buffer.
TrySendAverage(out, buffer) ==
    IF buffer # <<>> /\ Len(out) < AvgBuf
    THEN Append(out, AverageConvertedSamples(buffer))
    ELSE out

\* The averaging goroutine, case sample, ok := <-in with ok: the sample is
\* appended and the buffer trimmed to the window.
AvgReceive ==
    /\ panicked = "none"
    /\ averaging
    /\ chpc = "running"
    /\ avgpc = "select"
    /\ convOut # <<>>
    /\ LET b == Append(avgBuffer, Head(convOut))
       IN  avgBuffer' = IF Len(b) > AvgWindow THEN Tail(b) ELSE b
    /\ convOut' = Tail(convOut)
    /\ UNCHANGED <<rawIn, rawClosed, nRaw, cvpc, converted, convOutClosed, received,
                   delivered, timedOut, mockVars, chpc, useMock, averaging, heaterpc,
                   heaterSeen, teepc, teeCur, teeTaken, avgpc, avgOut, avgOutClosed, nTicks,
                   mtrpc, fed, closepc, shutdown, callbacks, notChain>>

\* The averaging goroutine, case <-ticker.C: the average of the buffer is
\* sent without blocking.
AvgTick ==
    /\ panicked = "none"
    /\ averaging
    /\ chpc = "running"
    /\ avgpc = "select"
    /\ nTicks < MaxTicks
    /\ nTicks' = nTicks + 1
    /\ avgOut' = TrySendAverage(avgOut, avgBuffer)
    /\ UNCHANGED <<mockVars, convVars, chpc, useMock, averaging, heaterpc, heaterSeen, teepc,
                   teeCur, teeTaken, avgpc, avgBuffer, avgOutClosed, mtrpc, fed, closepc,
                   shutdown, callbacks, notChain>>

\* The averaging goroutine, case <-in with !ok: the average of what is left
\* in the buffer is sent without blocking, and the deferred close(out) runs.
AvgClose ==
    /\ panicked = "none"
    /\ averaging
    /\ chpc = "running"
    /\ avgpc = "select"
    /\ convOut = <<>>
    /\ convOutClosed
    /\ avgOut' = TrySendAverage(avgOut, avgBuffer)
    /\ avgOutClosed' = TRUE
    /\ avgpc' = "done"
    /\ UNCHANGED <<mockVars, convVars, chpc, useMock, averaging, heaterpc, heaterSeen, teepc,
                   teeCur, teeTaken, avgBuffer, nTicks, mtrpc, fed, closepc, shutdown,
                   callbacks, notChain>>

\* ProcessSamples(samplesStream), for s := range in, with the averaging
\* converter's output as the stream.
MeterReceiveAveraged ==
    /\ averaging
    /\ mtrpc = "range"
    /\ \/ /\ avgOut # <<>>
          /\ fed' = Append(fed, Head(avgOut))
          /\ avgOut' = Tail(avgOut)
          /\ UNCHANGED <<mtrpc, shutdown>>
       \/ /\ avgOut = <<>>
          /\ avgOutClosed
          /\ mtrpc' = "done"
          /\ shutdown' = TRUE
          /\ UNCHANGED <<fed, avgOut>>
    /\ UNCHANGED convVars

\* ProcessSamples(samplesStream), for s := range in, with the base
\* converter's output as the stream.
MeterReceiveBase ==
    /\ ~averaging
    /\ mtrpc = "range"
    /\ \/ /\ convOut # <<>>
          /\ fed' = Append(fed, Head(convOut))
          /\ convOut' = Tail(convOut)
          /\ UNCHANGED <<mtrpc, shutdown>>
       \/ /\ convOut = <<>>
          /\ convOutClosed
          /\ mtrpc' = "done"
          /\ shutdown' = TRUE
          /\ UNCHANGED <<fed, convOut>>
    /\ UNCHANGED <<rawIn, rawClosed, nRaw, cvpc, converted, convOutClosed, received,
                   delivered, timedOut, avgOut>>

\* The goroutine running ProcessSamples: a sample is received, or the stream
\* is closed and drained, the shutdown flag is set and ProcessSamples returns.
MeterStep ==
    /\ panicked = "none"
    /\ chpc = "running"
    /\ MeterReceiveAveraged \/ MeterReceiveBase
    /\ UNCHANGED <<mockVars, chpc, useMock, averaging, heaterpc, heaterSeen, teepc, teeCur,
                   teeTaken, avgpc, avgBuffer, avgOutClosed, nTicks, closepc, callbacks,
                   notChain>>

\* closeMeasurementChain: chain.device.Close(), which cancels the context
\* and closes the samples channel.
ChainClose ==
    /\ panicked = "none"
    /\ chpc = "running"
    /\ closepc = "none"
    /\ closepc' = "waitHeater"
    /\ cancelled' = TRUE
    /\ connected' = FALSE
    /\ CloseChannel
    /\ lastErr' = "nil"
    /\ UNCHANGED <<devSamples, gen, nGenerated, cpc, convVars, chpc, useMock, averaging,
                   heaterpc, heaterSeen, teepc, teeCur, teeTaken, avgpc, avgBuffer, avgOut,
                   avgOutClosed, nTicks, mtrpc, fed, shutdown, callbacks, notChain>>

\* closeMeasurementChain: <-chain.heaterStateGoroutine, then
\* <-chain.meterGoroutine, then it returns.
ChainWait ==
    /\ panicked = "none"
    /\ \/ closepc = "waitHeater" /\ heaterpc = "done" /\ closepc' = "waitMeter"
       \/ closepc = "waitMeter" /\ mtrpc = "done" /\ closepc' = "returned"
    /\ UNCHANGED <<mockVars, convVars, chpc, useMock, averaging, heaterpc, heaterSeen, teepc,
                   teeCur, teeTaken, avgpc, avgBuffer, avgOut, avgOutClosed, nTicks, mtrpc,
                   fed, shutdown, callbacks, notChain>>

\* The device's goroutine: Mock.generateSamples, or Serial.readSamples with
\* the same two selects.
ChainDevice == chpc = "running" /\ Generate

NextChain ==
    \/ ChainConnect
    \/ ChainDevice
    \/ SerialRecover
    \/ HeaterStep
    \/ TeeReceive
    \/ TeeSend
    \/ TeeClose
    \/ ChainConvert
    \/ AvgReceive
    \/ AvgTick
    \/ AvgClose
    \/ MeterStep
    \/ ChainClose
    \/ ChainWait

SpecChain == InitRun /\ [][NextChain]_vars

(* ----------------------- package sample: downsampling ------------------ *)

\* Input slices: samples one tick apart, each reading 0 or 1.
DsInputs ==
    UNION {[1..n -> {[Timestamp |-> i, Reading |-> r] : i \in 0..(MaxDsLen - 1), r \in {0, 1}}]
              : n \in 0..MaxDsLen}

OneTickApart(seq) == \A i \in 1..Len(seq) : seq[i].Timestamp = i - 1

\* A call DownsampleSamples(dst, samples, maxPoints) or
\* DownsampleDerivatives(dst, derivatives, maxPoints) about to be made.
InitDownsampleCall ==
    /\ InitMeter
    /\ InitComponents
    /\ windowDuration = ScenarioWindow
    /\ threshold = ScenarioThreshold
    /\ minPulseDuration = ScenarioMinDuration
    /\ dsInput \in {seq \in DsInputs : OneTickApart(seq)}
    /\ dsMaxPoints \in 1..MaxPoints
    /\ dsKind = "none"
    /\ dsResult = <<>>

\* Mutant: the step is maxPoints / len instead of len / maxPoints.
DownsampleIndexInverted(i, len, maxPoints) == (i * maxPoints) \div len

\* idx := int(float64(i) * step), step = len / maxPoints (0-based)
DownsampleIndex(i, len, maxPoints) == (i * len) \div maxPoints

RECURSIVE Decimate(_, _, _)
\* The decimation loop from i on: samples[idx] is appended when idx < len.
Decimate(seq, maxPoints, i) ==
    IF i >= maxPoints THEN <<>>
    ELSE LET idx == DownsampleIndex(i, Len(seq), maxPoints)
         IN  (IF idx < Len(seq) THEN <<seq[idx + 1]>> ELSE <<>>)
                 \o Decimate(seq, maxPoints, i + 1)

\* DownsampleSamples / DownsampleDerivatives: a copy when the input is short
\* enough, the decimation otherwise.
Downsample(seq, maxPoints) ==
    IF Len(seq) <= maxPoints THEN seq ELSE Decimate(seq, maxPoints, 0)

\* The derivatives a slice of samples stands for in a call of
\* DownsampleDerivatives: position and value.
AsDerivatives(seq) == [i \in 1..Len(seq) |-> [pos |-> i - 1, value |-> seq[i].Reading]]

DownsampleSamples ==
    /\ dsKind = "none"
    /\ dsKind' = "samples"
    /\ dsResult' = Downsample(dsInput, dsMaxPoints)
    /\ UNCHANGED <<dsInput, dsMaxPoints, notDs>>

DownsampleDerivatives ==
    /\ dsKind = "none"
    /\ dsKind' = "derivatives"
    /\ dsResult' = Downsample(AsDerivatives(dsInput), dsMaxPoints)
    /\ UNCHANGED <<dsInput, dsMaxPoints, notDs>>

NextDownsample == DownsampleSamples \/ DownsampleDerivatives

SpecDownsample == InitDownsampleCall /\ [][NextDownsample]_vars

(* ------------------------- properties: helpers ------------------------- *)

\* A step that ingests one sample.
IngestStep == nIngested' = nIngested + 1

\* The exact value of derivative d exceeds k reading units per tick.
Exceeds(d, k) == d.num > k * d.den

\* Derivative d is the difference quotient of the samples a and b.
QuotientOf(d, a, b) ==
    /\ b.Timestamp > a.Timestamp
    /\ d.den > 0
    /\ d.num * (b.Timestamp - a.Timestamp) = (b.Reading - a.Reading) * d.den

Timestamps(smp) == [i \in 1..Len(smp) |-> smp[i].Timestamp]

\* No sample has been evicted since construction.
NothingEvicted == nIngested = Len(samples)

(* -------------------------------- C1 ----------------------------------- *)

\* C1: in every reachable state, whatever the timestamps ingested,
\* len(derivatives) = max(0, len(samples) - 1).
C1_DerivativeCount == Len(derivatives) = Max(0, Len(samples) - 1)

(* -------------------------------- C2 ----------------------------------- *)

\* C2: with strictly increasing timestamps, derivatives[i] is the difference
\* quotient of samples[i] and samples[i+1], also after leading samples were
\* evicted.
C2_DerivativePairing ==
    /\ Len(derivatives) = Max(0, Len(samples) - 1)
    /\ \A i \in 1..Len(derivatives) :
           QuotientOf(derivatives[i], samples[i], samples[i + 1])

\* Two derivatives are left after an eviction.
C2_Witness == nIngested > Len(samples) /\ Len(derivatives) >= 2

(* -------------------------------- C3 ----------------------------------- *)

\* C3: after processSample(s), whatever the timestamp of s, every retained
\* sample x has x.Timestamp > s.Timestamp - windowDuration (stated for the
\* meters with a positive window).
C3_WindowInvariant ==
    (windowDuration > 0 /\ samples # <<>>) =>
        \A i \in 1..Len(samples) :
            samples[i].Timestamp > Last(samples).Timestamp - windowDuration

(* -------------------------------- C4 ----------------------------------- *)

\* An ingest step appends s and evicts exactly the leading samples older
\* than s.Timestamp - windowDuration, and as many leading derivatives.
EvictsOlderThanCutoff ==
    LET s      == Last(samples')
        all    == Append(samples, s)
        cutoff == s.Timestamp - windowDuration
        k      == Len(all) - Len(samples')
    IN  /\ k >= 0
        /\ samples' = DropFront(all, k)
        /\ \A i \in 1..k : all[i].Timestamp < cutoff
        /\ ~(all[k + 1].Timestamp < cutoff)
        /\ Len(derivatives') = Max(0, Len(samples') - 1)

\* Scenario D in ticks of 0.5 s: window 2, samples at 0, 1 and then 3 leave
\* the samples at 1 and 3 and their one derivative.
ScenarioD ==
    (windowDuration = 2 /\ Timestamps(samples) = <<0, 1>> /\ Last(samples').Timestamp = 3)
        => /\ samples' = <<samples[2], Last(samples')>>
           /\ derivatives' = <<Derivative(samples[2], Last(samples'))>>

\* C4: processSample evicts exactly the leading samples whose timestamp is
\* older than latest.Timestamp - windowDuration (and as many derivatives);
\* in scenario D two samples and one derivative are left.
C4_EvictsOlderThanCutoff ==
    [][(IngestStep /\ windowDuration > 0) => (EvictsOlderThanCutoff /\ ScenarioD)]_vars

(* -------------------------------- C5 ----------------------------------- *)

\* C5: every pulse in the list has 0 <= StartIndex <= EndIndex < len(samples)
\* and EndTime - StartTime >= minPulseDuration.
C5_PulsesValid ==
    \A i \in 1..Len(pulses) :
        /\ 0 <= pulses[i].StartIndex
        /\ pulses[i].StartIndex <= pulses[i].EndIndex
        /\ pulses[i].EndIndex < Len(samples)
        /\ pulses[i].EndTime - pulses[i].StartTime >= minPulseDuration

\* A pulse is retained under a positive minimum duration after an eviction.
C5_Witness == pulses # <<>> /\ minPulseDuration > 0 /\ nIngested > Len(samples)

(* -------------------------------- C6 ----------------------------------- *)

\* Every derivative in the buffer exceeds the threshold.
HeatingRun ==
    /\ Len(derivatives) = Len(samples) - 1
    /\ Len(derivatives) >= 1
    /\ \A i \in 1..Len(derivatives) : Exceeds(derivatives[i], threshold)

\* C6: a heating run that nothing interrupts and whose total duration has
\* reached minPulseDuration is retained as one pulse, also when a single
\* sample interval is shorter than minPulseDuration.
C6_HeatingRunRetained ==
    (NothingEvicted /\ HeatingRun
        /\ Last(samples).Timestamp - samples[1].Timestamp >= minPulseDuration)
    => /\ Len(pulses) = 1
       /\ pulses[1].StartIndex = 0
       /\ pulses[1].EndIndex = Len(samples) - 1

(* -------------------------------- C7 ----------------------------------- *)

\* All ScenarioSamples samples are in, each rising by `rate` over the one
\* before.
ScenarioRun(rate) ==
    /\ nIngested = ScenarioSamples
    /\ Len(samples) = ScenarioSamples
    /\ \A i \in 1..(Len(samples) - 1) : samples[i + 1].Reading - samples[i].Reading = rate

\* Exactly one pulse, spanning the whole run, with the given raw value.
OnePulseOverRun(rate) ==
    /\ Len(pulses) = 1
    /\ pulses[1].StartIndex = 0
    /\ pulses[1].EndIndex = ScenarioSamples - 1
    /\ pulses[1].EndTime - pulses[1].StartTime = ScenarioSamples - 1
    /\ pulses[1].RawValue.num = rate * pulses[1].RawValue.den

C8_RawValueAboveThreshold ==
    /\ [](\A i \in 1..Len(pulses) : Exceeds(pulses[i].RawValue, threshold))
    /\ [][(pulses = <<>> /\ pulses' # <<>>)
            => (derivatives' # <<>> /\ Exceeds(Last(derivatives'), threshold))]_vars

\* A pulse is retained by a meter whose threshold is not zero.
C8_Witness == pulses # <<>> /\ threshold > 0

(* -------------------------------- C9 ----------------------------------- *)

\* C9: in a step that evicts nothing, whose newest derivative exceeds the
\* threshold and where the most recent pulse ends within 2 samples of the
\* newest sample index, that pulse is extended to the newest sample and no
\* pulse is opened.
C9_GapTolerance ==
    [][(/\ IngestStep
        /\ Len(samples') = Len(samples) + 1
        /\ Len(derivatives') = Len(derivatives) + 1
        /\ Exceeds(Last(derivatives'), threshold)
        /\ pulses # <<>>
        /\ Len(samples') - 1 <= Last(pulses).EndIndex + 2)
       => /\ Len(pulses') = Len(pulses)
          /\ pulses' = [pulses EXCEPT ![Len(pulses)] =
                          [@ EXCEPT !.EndIndex = Len(samples') - 1,
                                    !.EndTime = Last(samples').Timestamp,
                                    !.RawValue = Last(derivatives')]]]_vars

(* -------------------------------- C10 ---------------------------------- *)

\* C10: a processSample that evicts nothing and whose newest derivative does
\* not exceed the threshold leaves the pulse list unchanged.
C10_CoolingKeepsPulses ==
    [][(/\ IngestStep
        /\ Len(samples') = Len(samples) + 1
        /\ derivatives' # <<>> => ~Exceeds(Last(derivatives'), threshold))
       => pulses' = pulses]_vars

\* A pulse is still listed after a sample at or below the threshold, with
\* nothing evicted.
C10_Witness ==
    /\ pulses # <<>>
    /\ NothingEvicted
    /\ derivatives # <<>>
    /\ ~Exceeds(Last(derivatives), threshold)

(* ------------------------------- C11 ----------------------------------- *)

\* The pulses of ps that start at or after the k-th sample, re-indexed for a
\* buffer that lost its k leading samples.
ShiftedSurvivors(ps, k) ==
    LET kept == SelectSeq(ps, LAMBDA p : p.StartIndex >= k)
    IN  [i \in 1..Len(kept) |->
            [kept[i] EXCEPT !.StartIndex = @ - k, !.EndIndex = @ - k]]

SamePlace(p, q) ==
    /\ p.StartIndex = q.StartIndex
    /\ p.EndIndex = q.EndIndex
    /\ p.StartTime = q.StartTime

\* A call that evicted at least one sample.
EvictingStep == IngestStep /\ lastCutoffIndex' > 0

\* C11: when a processSample call evicts k > 0 leading samples, the pulses the
\* call leaves behind are the pulses that started at index k or later, each
\* with StartIndex and EndIndex decreased by k and StartTime unchanged; a pulse
\* that started before index k is gone.
C11_EvictionShiftsPulses ==
    [][EvictingStep =>
          LET k  == lastCutoffIndex'
              sh == ShiftedSurvivors(pulses, k)
          IN  /\ Len(pulses') >= Len(sh)
              /\ \A i \in 1..Len(sh) : SamePlace(pulses'[i], sh[i])
              /\ \A i \in 1..Len(pulses) :
                    pulses[i].StartIndex < k =>
                        \A j \in 1..Len(pulses') :
                            pulses'[j].StartTime # pulses[i].StartTime]_vars

\* C11 (amended): as above, except for what the pulse update of the same call
\* does after the eviction: when the newest derivative exceeds the threshold
\* the last surviving pulse may be extended to the newest sample, and one new
\* pulse ending at the newest sample may be appended.
C11_EvictionShiftsThenUpdates ==
    [][EvictingStep =>
          LET sh      == ShiftedSurvivors(pulses, lastCutoffIndex')
              n       == Len(sh)
              last    == Len(samples') - 1
              heating == derivatives' # <<>> /\ Exceeds(Last(derivatives'), threshold)
          IN  /\ Len(pulses') \in {n, n + 1}
              /\ \A i \in 1..n :
                    /\ pulses'[i].StartIndex = sh[i].StartIndex
                    /\ pulses'[i].StartTime = sh[i].StartTime
                    /\ \/ pulses'[i] = sh[i]
                       \/ /\ i = n
                          /\ heating
                          /\ sh[i].EndIndex < last
                          /\ pulses'[i].EndIndex = last
              /\ Len(pulses') = n + 1 =>
                    /\ heating
                    /\ pulses'[n + 1].EndIndex = last
                    /\ pulses'[n + 1].StartIndex = Max(0, last - 1)]_vars

\* An eviction has just shifted a pulse that it kept.
C11_Witness ==
    /\ lastCutoffIndex > 0
    /\ \E i \in 1..Len(pulses) : pulses[i].EndIndex < Len(samples) - 1

(* ------------------------------- C12 ----------------------------------- *)

\* C12: with minPulseDuration = 0 and strictly increasing timestamps, after
\* every processSample whose newest derivative exceeds the threshold some
\* retained pulse ends at the newest sample, eviction or not.
C12_PulseContinuesWhileHeating ==
    (/\ minPulseDuration = 0
     /\ nIngested > 0
     /\ Len(derivatives) = Len(samples) - 1
     /\ derivatives # <<>>
     /\ Exceeds(Last(derivatives), threshold))
        => \E i \in 1..Len(pulses) : pulses[i].EndIndex = Len(samples) - 1

(* ------------------------------- C13 ----------------------------------- *)

NoneTwice == \A c \in 1..Len(notified) : notified[c] <= 1

EachOnce == \A c \in 1..Len(notified) : notified[c] = 1

\* processSample has left its callback loop, in a call that found the meter
\* not shut down.
NotifyingCallDone == pc \in {"relock", "return"} /\ ~atCall.down

\* C13: in a processSample call that finds the meter not shut down, every
\* callback registered by then is invoked exactly once, none twice; and when
\* ProcessSamples sets the shutdown flag every sample sent on its channel has
\* been received and has gone through such a call.
C13_EachCallbackOncePerSample ==
    /\ [](NoneTwice /\ (NotifyingCallDone =>
              (Len(notified) >= atCall.registered /\ EachOnce)))
    /\ [][(~shutdown /\ shutdown') =>
              (input = <<>> /\ inputClosed /\ nIngested = nSent)]_vars

\* Two callbacks were notified of the last sample, then the channel closed.
C13_Witness ==
    /\ shutdown
    /\ pc = "idle"
    /\ nIngested >= 2
    /\ ~atCall.down
    /\ Len(notified) = 2
    /\ EachOnce

(* ------------------------------- C14 ----------------------------------- *)

\* C14: ProcessSamples returns with the shutdown flag set, only ResetShutdown
\* clears it, and a callback is entered only in a processSample call that
\* found the flag clear.
C14_NoCallbackAfterClose ==
    /\ [][(pc = "shutdown" /\ pc' = "idle") => shutdown']_vars
    /\ [][(shutdown /\ ~shutdown') => ResetShutdown]_vars
    /\ [][(pc # "incb" /\ pc' = "incb") => ~atCall.down]_vars

\* A sample processed after the return, with a callback registered, that
\* skipped the notification.
C14_Witness ==
    /\ chains = 2
    /\ shutdown
    /\ atCall.down
    /\ atCall.registered > 0
    /\ pc = "return"

(* ------------------------------- C15 ----------------------------------- *)

\* C15: the step that clears the shutdown flag leaves samples, derivatives,
\* pulses and the registered callbacks as they were, and a processSample call
\* that finds the flag clear goes on to notify.
C15_ResetRearmsAndKeepsState ==
    /\ [][(shutdown /\ ~shutdown') =>
              UNCHANGED <<samples, derivatives, pulses, callbacks>>]_vars
    /\ [][(pc = "body" /\ pc' # "body" /\ ~shutdown) => pc' = "rlock"]_vars

\* A callback runs in the second ProcessSamples call, over the samples of
\* the first.
C15_Witness ==
    /\ chains = 2
    /\ pc = "incb"
    /\ Len(samples) >= 2
    /\ nIngested = 2

(* ------------------------------- C16 ----------------------------------- *)

\* C16: the ProcessSamples goroutine is never held inside a callback that
\* does not return while a sample waits on its channel.
C16_IngestionNeverBlocks ==
    ~(pc = "incb" /\ callbacksCopy[cbIdx] = "hangs" /\ input # <<>>)

(* ------------------------------- C17 ----------------------------------- *)

\* C17: while a callback executes, the ProcessSamples goroutine holds neither
\* mu nor cbMu, so ResetShutdown, OnUpdate and the readers can take them.
C17_CallbacksRunUnlocked ==
    pc = "incb" =>
        /\ CanLock(mu)
        /\ CanLock(cbMu)
        /\ ENABLED ResetShutdown
        /\ ENABLED ReadSamples \/ rpc # "Samples"
        /\ ENABLED OnUpdate \/ Len(callbacks) = MaxCallbacks

\* A callback is executing and a callback has been registered since the
\* list was copied.
C17_Witness ==
    /\ pc = "incb"
    /\ Len(callbacks) > Len(callbacksCopy)

(* ------------------------------- C18 ----------------------------------- *)

\* C18: the triple CopyMeasurementData reads while samples are ingested is
\* one state of the meter: one derivative fewer than samples, and no pulse
\* ending beyond the samples.
C18_SnapshotConsistent ==
    rpc = "done" =>
        /\ Len(snapshot.derivatives) = Max(0, Len(snapshot.samples) - 1)
        /\ \A i \in 1..Len(snapshot.pulses) :
               snapshot.pulses[i].EndIndex < Len(snapshot.samples)

(* ------------------------------- C19 ----------------------------------- *)

\* C19: a processSample call with a sample that is not later than the latest
\* stored sample leaves samples, derivatives and pulses unchanged.
C19_StaleSampleSkipped ==
    [][(/\ IngestStep
        /\ samples # <<>>
        /\ ~(Last(samples').Timestamp > Last(samples).Timestamp))
          => UNCHANGED <<samples, derivatives, pulses>>]_vars

(* ------------------------------- C20 ----------------------------------- *)

\* C20: a meter that processes samples was constructed with a positive
\* window, a positive threshold and a positive minimum pulse duration.
C20_RunningMeterHasPositiveConfig ==
    nIngested > 0 =>
        /\ windowDuration > 0
        /\ threshold > 0
        /\ minPulseDuration > 0

(* ------------------------------- C21 ----------------------------------- *)

\* Both rounds of reads have been made.
ReadTwice == rpc = "done" /\ earlier.readAt # NeverRead

\* A step of Samples(), Derivatives() or Pulses().
ReadStep == rpc # "done" /\ rpc' # rpc

\* C21: a read of samples, derivatives or pulses made twice with no
\* processSample call in between returns equal results, and a read leaves the
\* buffers, the configuration, the shutdown flag and the callbacks unchanged.
C21_ReadsIdempotent ==
    /\ [](ReadTwice =>
            /\ readAt.samples = earlier.readAt.samples =>
                   snapshot.samples = earlier.snapshot.samples
            /\ readAt.derivatives = earlier.readAt.derivatives =>
                   snapshot.derivatives = earlier.snapshot.derivatives
            /\ readAt.pulses = earlier.readAt.pulses =>
                   snapshot.pulses = earlier.snapshot.pulses)
    /\ [][ReadStep => UNCHANGED <<dataVars, cfgVars, shutdown, callbacks>>]_vars

\* Two rounds of reads of a meter holding a pulse, with no call in between.
C21_Witness ==
    /\ ReadTwice
    /\ readAt = earlier.readAt
    /\ snapshot.pulses # <<>>

(* ------------------------------- C22 ----------------------------------- *)

\* C22: a Close that disconnects the Mock closes the samples channel; a Close
\* of a Mock that is not connected returns nil and changes nothing; and once
\* the channel is closed the consumer's range loop can end: the program has
\* not died with the consumer still in the loop.
C22_CloseEndsConsumer ==
    /\ [][(connected /\ ~connected') => (devClosed' /\ panicked' = "none")]_vars
    /\ [][(MockClose /\ ~connected) =>
              (lastErr' = "nil" /\ UNCHANGED <<connected, cancelled, devSamples, devClosed,
                                               gen, panicked>>)]_vars
    /\ []((devClosed /\ panicked # "none") => cpc = "done")

(* ------------------------------- C23 ----------------------------------- *)

\* C23: over any sequence of Connect and Close calls the samples channel is
\* closed at most once (no Close panics), and a connected device has an open
\* samples channel and a generator that can deliver on it.
C23_Reconnect ==
    /\ panicked # "close of closed channel"
    /\ connected => (~devClosed /\ ~cancelled)

(* ------------------------------- C24 ----------------------------------- *)

\* The Sample a raw sample stands for: same timestamp, reading scaled from
\* ADC counts to a voltage.
Stands(s, raw) ==
    /\ s.Timestamp = raw.Timestamp
    /\ s.Reading.den > 0
    /\ s.Reading.num * 4095 = raw.Reading * VRef * s.Reading.den

\* What has left the converter so far, oldest first.
Emitted == delivered \o convOut

\* The raw samples whose conversion has been sent.
Handled == IF cvpc = "send" THEN SubSeq(received, 1, Len(received) - 1) ELSE received

IsCommand(chars) == Len(chars) = 3 /\ \A i \in 1..3 : chars[i] \in {"0", "1"}

\* C25: the heater states change only on the line end (a carriage return
\* counted as one too) that ends a line of exactly three characters, each
\* '0' or '1'; any other line leaves the three heater states as they were.
C25_OnlyThreeDigitLines ==
    [][heaterStates' # heaterStates => (lastByte' \in LineEnds /\ IsCommand(line))]_vars

(* ------------------------------- C26 ----------------------------------- *)

\* The run has returned with a DeviceError.
DeviceFailure == calpc = "returned" /\ calErr.kind = "DeviceError"

\* Heater-on commands among the first n commands issued.
HeatersTurnedOn(n) == Cardinality({i \in 1..n : cmds[i] # AllOff})

\* C26: a run in which a heater command fails issues, after the failed
\* command, nothing but the all-heaters-off command, and returns the points
\* measured before the failure (the baseline point once the baseline wait is
\* over, one point per heater turned on before a failed heater-off) with a
\* DeviceError naming the failed stage; when turning the second heater on
\* fails, the table holds the baseline point and the first heater's point only.
C26_FailedCommandAborts ==
    DeviceFailure =>
        /\ calHist.failedAt = Len(cmds) - 1
        /\ cmds[Len(cmds)] = AllOff
        /\ calErr.stage \in {"baselineOff", "heaterOn", "heaterOff"}
        /\ calErr.stage = "baselineOff" <=> calHist.failedAt = 1
        /\ calErr.stage = "heaterOn" <=> cmds[calHist.failedAt] # AllOff
        /\ Len(points) = IF calErr.stage = "baselineOff" THEN 0
                         ELSE IF calErr.stage = "heaterOn" THEN calErr.heater
                         ELSE calErr.heater + 1
        /\ \A i \in 1..Len(points) :
              points[i].power = IF i = 1 THEN 0 ELSE HeaterPower[HeaterOrder[i - 1]]
        /\ (calErr.stage = "heaterOn" /\ calErr.heater = 2) =>
              /\ Len(points) = 2
              /\ points[1].power = 0
              /\ points[2].power = HeaterPower[HeaterOrder[1]]

\* Turning the second heater on failed.
C26_Witness ==
    /\ DeviceFailure
    /\ calErr.stage = "heaterOn"
    /\ calErr.heater = 2
    /\ Len(points) = 2

(* ------------------------------- C27 ----------------------------------- *)

\* C27: whenever the run has returned - after the last cooloff, after a
\* failed heater command or after a cancelled wait - the last command issued
\* is all-heaters-off; a cancelled run returns CalibrationCancelled, a run
\* with a failed command DeviceError, a completed run no error.
C27_HeatersOffOnEveryExit ==
    calpc = "returned" =>
        /\ cmds # <<>>
        /\ cmds[Len(cmds)] = AllOff
        /\ calHist.cancelled <=> calErr.kind = "CalibrationCancelled"
        /\ calHist.failedAt > 0 <=> calErr.kind = "DeviceError"
        /\ ~(calHist.cancelled /\ calHist.failedAt > 0)

\* A wait was cancelled while a heater was on.
C27_Witness ==
    /\ calpc = "returned"
    /\ calHist.cancelled
    /\ calErr.stage = "measure"
    /\ Len(cmds) >= 3
    /\ cmds[Len(cmds) - 1] # AllOff

(* ------------------------------- C28 ----------------------------------- *)

\* Pulse p was not there before the step: no pulse started where it starts.
Opened(p) == \A j \in 1..Len(pulses) : pulses[j].StartTime # p.StartTime

\* Pulse p was there before the step and ends later now.
Extended(p) ==
    \E j \in 1..Len(pulses) :
        pulses[j].StartTime = p.StartTime /\ pulses[j].EndTime # p.EndTime

\* The newest derivative after the step exceeds the threshold.
HeatingStep == derivatives' # <<>> /\ Exceeds(Last(derivatives'), threshold)

\* C28: with strictly increasing timestamps, a pulse opened by a
\* processSample whose newest sample has index i starts at i-1 and ends at
\* i, carries the timestamps of those two samples and the newest derivative
\* as RawValue; and pulses are opened or extended only by a processSample
\* whose newest derivative exceeds the threshold.
C28_NewPulseSpansLastInterval ==
    [][IngestStep =>
          \A k \in 1..Len(pulses') :
              LET p == pulses'[k]
                  i == Len(samples') - 1
              IN  /\ Opened(p) =>
                        /\ HeatingStep
                        /\ i >= 1
                        /\ p.StartIndex = i - 1
                        /\ p.EndIndex = i
                        /\ p.StartTime = samples'[i].Timestamp
                        /\ p.EndTime = samples'[i + 1].Timestamp
                        /\ p.RawValue = Last(derivatives')
                  /\ Extended(p) => HeatingStep]_vars

\* A second pulse has been opened behind a closed one.
C28_Witness ==
    /\ Len(pulses) = 2
    /\ pulses[2].EndIndex = Len(samples) - 1
    /\ pulses[2].StartIndex = Len(samples) - 2
    /\ pulses[1].EndIndex < pulses[2].StartIndex

(* ------------------------------- C29 ----------------------------------- *)

\* A callback has been entered.
Delivered == got.for # NoSample \/ got.after # NoSnapshot

\* C29: with one ingesting goroutine, what the callback entered last sees
\* through its three slices is the meter's buffers as they were right
\* after the sample it was called for had been ingested, that sample being
\* the last of the samples; and it stays so whatever is ingested later.
C29_CallbackSeesStateAfterItsSample ==
    Delivered =>
        /\ View(got.args) = got.after
        /\ got.after.samples # <<>>
        /\ Last(got.after.samples) = got.for

\* A callback was handed the buffers of an earlier sample, and the meter
\* has ingested another one since.
C29_Witness ==
    /\ Delivered
    /\ got.after.pulses # <<>>
    /\ samples # got.after.samples
    /\ Last(samples) # got.for

(* ------------------------------- C30 ----------------------------------- *)

\* The chains whose ProcessSamples goroutine has not returned.
Ingesting == {c \in 1..Len(meterGo) : meterGo[c] # "returned"}

\* C30: whatever the connect, disconnect and port-change actions, at most
\* one ProcessSamples goroutine is running at any time, and every
\* ResetShutdown called for a new chain found no ProcessSamples goroutine
\* running and, if a chain came before, the shutdown flag set by it.
C30_OneIngestingGoroutine ==
    /\ Cardinality(Ingesting) <= 1
    /\ \A r \in 1..Len(resets) :
          /\ resets[r].running = {}
          /\ resets[r].chainsBefore > 0 => resets[r].shutdown

\* A third chain is running after a disconnect and a port change.
C30_Witness ==
    /\ Len(meterGo) = 3
    /\ meterGo[3] = "range"
    /\ ingestedBy[3] > 0
    /\ ingestedBy[1] > 0
    /\ port = "COM2"

(* ------------------------------- C34 ----------------------------------- *)

\* Sequence s is what is left of sequence u after dropping k elements from
\* its front.
SuffixOf(s, u) ==
    \E k \in 0..Len(u) :
        /\ Len(s) = Len(u) - k
        /\ \A i \in 1..Len(s) : s[i] = u[k + i]

\* C34: whatever the timestamps, a processSample leaves in the buffer a
\* suffix of the old buffer followed by the new sample - nothing is removed
\* except from the front, nothing reordered or duplicated - and the buffer
\* changes in no other step; so the buffer is always a contiguous suffix of
\* the samples ingested so far.
C34_BufferIsSuffixOfIngested ==
    /\ [][IngestStep =>
            /\ samples' # <<>>
            /\ SuffixOf(samples', Append(samples, Last(samples')))]_vars
    /\ [][~IngestStep => UNCHANGED samples]_vars

\* Samples were evicted and more than one is left.
C34_Witness ==
    /\ lastCutoffIndex > 0
    /\ Len(samples) >= 2
    /\ nIngested > Len(samples)

(* ------------------------------- C35 ----------------------------------- *)

\* Pulse p's indices lie in the buffer smp and its times are the timestamps
\* of the samples at those indices.
TimesMatchIndices(p, smp) ==
    /\ p.StartIndex >= 0
    /\ p.EndIndex < Len(smp)
    /\ p.StartTime = smp[p.StartIndex + 1].Timestamp
    /\ p.EndTime = smp[p.EndIndex + 1].Timestamp

\* C35: after every processSample, every retained pulse's StartTime and
\* EndTime are the timestamps of samples[StartIndex] and samples[EndIndex].
C35_PulseTimesDenoteItsSamples ==
    \A k \in 1..Len(pulses) : TimesMatchIndices(pulses[k], samples)

\* A pulse that was shifted by an eviction and extended afterwards.
C35_Witness ==
    /\ nIngested > Len(samples)
    /\ pulses # <<>>
    /\ pulses[1].EndIndex = Len(samples) - 1
    /\ pulses[1].EndIndex > pulses[1].StartIndex + 1

(* ------------------------------- C36 ----------------------------------- *)

\* Pulse p was extended by the step: it ends later than a pulse that
\* started where it starts.
ExtendedFrom(p, old) ==
    \E j \in 1..Len(old) : old[j].StartTime = p.StartTime /\ old[j].EndTime < p.EndTime

\* C36: consecutive pulses never overlap, p.EndIndex < q.StartIndex, so at
\* most one pulse ends at the newest sample; and a processSample extends no
\* pulse but the last of the list.
C36_PulsesOrderedDisjoint ==
    /\ [](\A k \in 1..(Len(pulses) - 1) : pulses[k].EndIndex < pulses[k + 1].StartIndex)
    /\ [](Cardinality({k \in 1..Len(pulses) : pulses[k].EndIndex = Len(samples) - 1}) <= 1)
    /\ [][\A k \in 1..(Len(pulses') - 1) : ~ExtendedFrom(pulses'[k], pulses)]_vars

\* Two pulses, the second one extended over more than one interval.
C36_Witness ==
    /\ Len(pulses) = 2
    /\ pulses[2].EndIndex = Len(samples) - 1
    /\ pulses[2].EndIndex > pulses[2].StartIndex + 1

(* ------------------------------- C37 ----------------------------------- *)

\* C37: however Close and the generator goroutine interleave, the generator
\* never sends on the samples channel after Close has closed it.
C37_NoSendOnClosedChannel == panicked # "send on closed channel"

(* ------------------------------- C38 ----------------------------------- *)

\* C38: whatever the connect and disconnect cycles, the meter has at most
\* one scope-update callback registered.
C38_OneScopeCallback == Len(callbacks) <= 1

(* ------------------------------- C39 ----------------------------------- *)

\* C39: a command that changes a heater state resets both channels' counts
\* and starts the countdown; and after such a command a channel has a
\* reading accumulated only once it has discarded
\* IGNORE_SAMPLES_AFTER_CHANGE readings.
C39_EachChannelIgnoresTen ==
    /\ [][heaterStates' # heaterStates =>
            /\ absorberCount' = 0
            /\ voltageCount' = 0
            /\ ignoreCountdown' = IGNORE_SAMPLES_AFTER_CHANGE]_vars
    /\ []((discarded.changed /\ absorberCount > 0) =>
              discarded.absorber = IGNORE_SAMPLES_AFTER_CHANGE)
    /\ []((discarded.changed /\ voltageCount > 0) =>
              discarded.voltage = IGNORE_SAMPLES_AFTER_CHANGE)

(* ------------------------------- C40 ----------------------------------- *)

\* The slice a call was made on.
DsArgument == IF dsKind = "derivatives" THEN AsDerivatives(dsInput) ELSE dsInput

\* Sequence r picks elements of sequence u at strictly increasing positions.
PicksInOrder(r, u) ==
    \E f \in [1..Len(r) -> 1..Len(u)] :
        /\ \A k \in 1..Len(r) : r[k] = u[f[k]]
        /\ \A k \in 1..(Len(r) - 1) : f[k] < f[k + 1]

\* C40: for maxPoints >= 1, DownsampleSamples and DownsampleDerivatives
\* return min(len(input), maxPoints) elements, picked from the input at
\* strictly increasing indices and starting with input[0]; an input of at
\* most maxPoints elements is returned as it is.
C40_DownsampleIsOrderedSubsequence ==
    dsKind # "none" =>
        /\ Len(dsResult) = IF Len(DsArgument) <= dsMaxPoints THEN Len(DsArgument)
                           ELSE dsMaxPoints
        /\ PicksInOrder(dsResult, DsArgument)
        /\ DsArgument # <<>> => dsResult[1] = DsArgument[1]
        /\ Len(DsArgument) <= dsMaxPoints => dsResult = DsArgument

\* Four samples were decimated to three.
C40_Witness ==
    /\ dsKind = "samples"
    /\ Len(dsInput) = 4
    /\ dsMaxPoints = 3
    /\ Len(dsResult) = 3

(* ------------------------------- C32 ----------------------------------- *)

\* The elements of a sequence.
Range(seq) == {seq[i] : i \in 1..Len(seq)}

\* The device's samples that reached the converter chain.
Forwarded == {s.Timestamp : s \in Range(received \o rawIn)}

\* The device's samples that were received from its channel.
TakenFromDevice == Range(heaterSeen) \cup Range(teeTaken)

\* C32: teeChannel duplicates the device's stream: once the stream has ended,
\* every sample received from the device has been forwarded to the converter
\* chain and has been seen by the heater-state goroutine.
C32_TeeDuplicatesStream ==
    (heaterpc = "done" /\ teepc = "done") =>
        \A n \in TakenFromDevice : n \in Forwarded /\ n \in Range(heaterSeen)

(* ------------------------------- C33 ----------------------------------- *)

\* C33: the samples fed to the meter have strictly increasing timestamps (the
\* device's samples have), with and without the averaging stage.
C33_FedTimestampsIncrease ==
    \A i \in 1..(Len(fed) - 1) : fed[i].Timestamp < fed[i + 1].Timestamp

(* ------------------------------- C31 ----------------------------------- *)

Waiting == closepc \in {"waitHeater", "waitMeter"}

\* C31: once the device is closed the end of the stream travels down the
\* chain: while closeMeasurementChain waits, some goroutine of the chain, or
\* the wait itself, can go on (the program has neither crashed nor come to
\* a halt); and when it has returned, ProcessSamples has returned and the
\* shutdown flag is set.
C31_CloseMeasurementChainReturns ==
    /\ Waiting => ENABLED NextChain
    /\ closepc = "returned" => mtrpc = "done" /\ shutdown

====
